---- MODULE Spec2Model ----
(***************************************************************************)
(* The location cache of EVE-Tools/static-data: getLocations and the       *)
(* per-id resolution getCachedLocation, in its two revisions: the ESI one  *)
(* (src/unnamed/part_003, gRPC endpoint) and the CREST one                 *)
(* (src/unnamed/part_002, HTTP endpoint).  A behaviour runs one revision,  *)
(* fixed by the variable api.                                              *)
(*                                                                         *)
(* Identifiers are counted in units of 100000: the model id 601 is the     *)
(* source id 60100000.  Every id constant of the source (6100000,          *)
(* 10000000, ..., 1000000000000) is a multiple of 100000, so every         *)
(* comparison of the source is exact on model ids, and the values stay     *)
(* inside TLC's integers.  Times are unix seconds, unscaled.               *)
(***************************************************************************)
EXTENDS Integers, Sequences, FiniteSets, TLC

VARIABLES
    api,      \* "ESI" (part_003) or "CREST" (part_002)
    now,      \* time.Now().Unix()
    ticks,    \* how often the clock has advanced
    ops,      \* how many requests and refresh cycles have started
    cache,    \* bucket "locations": key (decimal string) -> CachedLocation
    ghost,    \* history: key -> the function that wrote the entry last
    refused,  \* history: id -> how often updateLocationInCache found it out of range
    batch,    \* the getLocations calls, one record per caller slot
    tasks,    \* the goroutines of each caller slot, in launch order
    sem,      \* number of slots taken in crestSemaphore
    sched,    \* scheduleStaticDataUpdate: "init" before it runs, then "ticking"
    sjob,     \* the running cycle of updateStructures
    rjob,     \* the running cycle of updateRegions
    \* the fan-out of one getLocations call, goroutines counted by place
    fanStart,     \* goroutines launched that have not reached their upstream call
    fanCalling,   \* call number -> goroutines with that upstream call in flight
    \* the world around the service
    healthy,      \* the upstream APIs and the database answer every call with success
    thirdParty,   \* the feeds the third party API may answer with
    \* market types
    esiSemaphore, \* number of slots taken in esiSemaphore
    bucket,       \* bucket "marketTypes": the value of key "ids"
    persisted,    \* history: the list that was persisted last
    mjob,         \* the running cycle of updateMarketTypes
    workers,      \* the goroutines checkIfMarketTypeAsyncRetry of the cycle
    reply,        \* the last answer of GetMarketTypes
    cycles,       \* how many cycles of updateMarketTypes have started
    pool          \* the goroutines of one cycle over a large catalog, counted by place

locVars ==
    <<api, now, ticks, ops, cache, ghost, refused, batch, tasks, sem, sched, sjob, rjob>>

fanVars == <<fanStart, fanCalling>>

typeVars == <<esiSemaphore, bucket, persisted, mjob, workers, reply, cycles>>

envVars == <<healthy, thirdParty>>

vars == <<locVars, envVars, fanVars, typeVars, pool>>

----------------------------------------------------------------------------
\* Bounds of the model.

\* longest id list of one request
MaxLen == 2
\* number of clock advances
MaxTicks == 1
\* requests and refresh cycles of one behaviour
MaxOps == 2
\* requests and refresh cycles in flight at once
MaxInFlight == 1
\* concurrent getLocations callers
NumBatches == 1
\* the clock at start
StartTime == 1500000000

\* the callers of getLocations: the requests, and 0 for updateStructures
Batches == 1..NumBatches
Callers == 0..NumBatches
\* the slot of `tasks` that holds the storeStructure goroutines
StoreOwner == NumBatches + 1

----------------------------------------------------------------------------
\* Program constants (ids in units of 100000).

\* part_003:334, part_002:348: ids above it are citadels; part_003:324 upper
\* end of the staleness band (1000000000000)
CitadelBound == 10000000
\* part_003:324: lower end of the staleness band (20000000)
StaleAbove == 200
\* part_003:341 (10000000, 64000000, 40000000, 60000000)
EsiLow == 100
EsiHigh == 640
GapLow == 400
GapHigh == 600
\* part_002:355 (30000000, 70000000)
CrestLow == 300
CrestHigh == 700
\* part_003:353 (61000000) and part_002:367 (6100000)
EsiConquerableAbove == 610
CrestConquerableAbove == 61
\* part_003:355,358 seconds
HourTTL == 3600
DayTTL == 86400
\* part_002:80
SemaphoreCapacity == 20
\* the upstream calls of one resolution in fetchLocationFromESI, one after the other:
\* PostUniverseNames, then the station, its solar system, constellation and region
EsiCalls == 5

----------------------------------------------------------------------------
\* Values.

Nil == [Id |-> 0, Name |-> ""]

EmptyLocation ==
    [Station |-> Nil, Region |-> Nil, SolarSystem |-> Nil, Constellation |-> Nil]

ZeroCachedLocation == [ID |-> 0, ExpiresAt |-> 0, Location |-> EmptyLocation]

\* The upstream universe: what the location API answers for each id.
Universe ==
    (102 :> [category |-> "region",        parent |-> 0,   name |-> "Lonetrek"])
 @@ (101 :> [category |-> "region",        parent |-> 0,   name |-> "The Forge"])
 @@ (201 :> [category |-> "constellation", parent |-> 101, name |-> "Kimotoro"])
 @@ (301 :> [category |-> "solar_system",  parent |-> 201, name |-> "Jita"])
 @@ (601 :> [category |-> "station",       parent |-> 301, name |-> "Jita IV-4"])
 @@ (611 :> [category |-> "station",       parent |-> 301, name |-> "Outpost"])

\* ids a client asks for: the universe, an id of the reserved gap, an unknown citadel
RequestIds == {101, 301, 601, 611, 450, CitadelBound + 1}

\* the answer of GetUniverseRegions
RegionList == <<101, 102>>

Levels == <<"station", "solar_system", "constellation", "region">>

ParentLevel(level) ==
    CASE level = "station" -> "solar_system"
      [] level = "solar_system" -> "constellation"
      [] level = "constellation" -> "region"
      [] OTHER -> "none"

\* a fetcher that leaves its facet unset
FacetUnset(level, id) == Nil

\* The facet a detail response of `level` for `id` is turned into.
Facet(level, id) ==
    IF level = "station"
    THEN [Id |-> id, Name |-> Universe[id].name, Public |-> TRUE]
    ELSE [Id |-> id, Name |-> Universe[id].name]

SetFacet(loc, level, facet) ==
    CASE level = "station" -> [loc EXCEPT !.Station = facet]
      [] level = "solar_system" -> [loc EXCEPT !.SolarSystem = facet]
      [] level = "constellation" -> [loc EXCEPT !.Constellation = facet]
      [] OTHER -> [loc EXCEPT !.Region = facet]

\* strconv.FormatInt(id, 10) as a string of characters
Digits == <<"0", "1", "2", "3", "4", "5", "6", "7", "8", "9">>

RECURSIVE FormatNat(_)
FormatNat(n) ==
    IF n < 10 THEN <<Digits[n + 1]>>
    ELSE Append(FormatNat(n \div 10), Digits[(n % 10) + 1])

FormatInt(n) == IF n < 0 THEN <<"-">> \o FormatNat(-n) ELSE FormatNat(n)

Range(s) == {s[k] : k \in DOMAIN s}

\* strconv.ParseInt(key, 10, 64): (ok, value)
IsDigit(c) == \E d \in 1..10 : Digits[d] = c

DigitValue(c) == (CHOOSE d \in 1..10 : Digits[d] = c) - 1

RECURSIVE ParseNat(_)
ParseNat(s) ==
    IF Len(s) = 0 THEN 0
    ELSE ParseNat(SubSeq(s, 1, Len(s) - 1)) * 10 + DigitValue(s[Len(s)])

ParseInt(s) ==
    LET body == IF Len(s) > 0 /\ s[1] \in {"+", "-"} THEN Tail(s) ELSE s
    IN  IF Len(body) = 0 \/ \E k \in DOMAIN body : ~IsDigit(body[k])
        THEN [ok |-> FALSE, value |-> 0]
        ELSE [ok |-> TRUE,
              value |-> IF s[1] = "-" THEN 0 - ParseNat(body) ELSE ParseNat(body)]

\* int32(id), part_003:405,451,496,533,569. A 32 bit word is a pair of 16 bit halves
\* <<high, low>>; the sum of two words, modulo 2^32
Add32(a, b) ==
    <<(a[1] + b[1] + ((a[2] + b[2]) \div 65536)) % 65536, (a[2] + b[2]) % 65536>>

\* n times the word w, modulo 2^32
RECURSIVE Times32(_, _)
Times32(w, n) ==
    IF n = 0 THEN <<0, 0>>
    ELSE LET h == Times32(w, n \div 2)
             d == Add32(h, h)
         IN  IF n % 2 = 1 THEN Add32(d, w) ELSE d

\* the low 32 bits of the int64 id, the model id counting 100000
Word32(id) == Times32(<<(id \div 65536) % 65536, id % 65536>>, 100000)

\* int32(id): the low 32 bits as a signed number
Int32(id) ==
    LET w == Word32(id)
    IN  IF w[1] >= 32768 THEN (w[1] - 65536) * 65536 + w[2] ELSE w[1] * 65536 + w[2]


\* The third party feed: key -> Structure.  Citadel ids are above CitadelBound.
Structure(name, systemID) ==
    [Name |-> name, TypeID |-> 35833, TypeName |-> "Fortizar", SystemID |-> systemID,
     Public |-> TRUE, FirstSeen |-> "2017-01-01", LastSeen |-> "2017-06-01",
     Coordinates |-> <<1, 2, 3>>]

KeyA == <<"1", "0", "0", "0", "0", "0", "0", "1">>
KeyB == <<"1", "0", "0", "0", "0", "0", "0", "2">>

\* one citadel in Jita; one more in a system of the reserved gap; a key that is no number
Feeds ==
    { (KeyA :> Structure("Tranquility Trading Tower", 301)),
      (KeyA :> Structure("Tranquility Trading Tower", 301))
          @@ (KeyB :> Structure("Nowhere", 450)),
      (<<"x">> :> Structure("Broken", 301)) }

\* the orders in which a map is iterated
Orders(S) == {u \in [1..Cardinality(S) -> S] : Range(u) = S}

\* What CREST's location endpoint answers for an id: the level with its ancestors.
RECURSIVE CrestLocation(_)
CrestLocation(id) ==
    IF id = 0 THEN EmptyLocation
    ELSE SetFacet(CrestLocation(Universe[id].parent), Universe[id].category,
                  [Id |-> id, Name |-> Universe[id].name])

----------------------------------------------------------------------------
\* Pure parts of the resolution.

\* IsStale without the band of the ids that are refreshed one by one
IsStaleAnyBand(c) == c.ExpiresAt < now

\* part_003:324: "citadels and regions are updated via ticker"
IsStale(c) == c.ID > StaleAbove /\ c.ID < CitadelBound /\ c.ExpiresAt < now

\* fetchLocationFromCache that asks for an update of every entry
fetchLocationFromCacheAlways(id) ==
    [location |-> IF FormatInt(id) \in DOMAIN cache THEN cache[FormatInt(id)]
                  ELSE ZeroCachedLocation,
     needsUpdate |-> TRUE]

\* fetchLocationFromCache: (location, needsUpdate)
fetchLocationFromCache(id) ==
    LET key == FormatInt(id)
    IN  IF key \notin DOMAIN cache
        THEN [location |-> ZeroCachedLocation, needsUpdate |-> TRUE]
        ELSE [location |-> cache[key], needsUpdate |-> IsStale(cache[key])]

\* InvalidRange without the reserved gap
InvalidRangeNoGap(id) ==
    IF api = "ESI" THEN id < EsiLow \/ id > EsiHigh
    ELSE id < CrestLow \/ id > CrestHigh

\* InvalidRange without the upper end of the range
InvalidRangeNoTop(id) ==
    IF api = "ESI"
    THEN id < EsiLow \/ (id >= GapLow /\ id < GapHigh)
    ELSE id < CrestLow \/ (id >= GapLow /\ id < GapHigh)

\* updateLocationInCache: "Exclude implausible ID ranges"
InvalidRange(id) ==
    IF api = "ESI"
    THEN id < EsiLow \/ id > EsiHigh \/ (id >= GapLow /\ id < GapHigh)
    ELSE id < CrestLow \/ id > CrestHigh \/ (id >= GapLow /\ id < GapHigh)

\* RangeError without the guard for citadels
RangeErrorNoCitadel(id) == IF InvalidRange(id) THEN "range" ELSE ""

\* updateLocationInCache: the error of its two guards, "" when the id passes
RangeError(id) ==
    IF id > CitadelBound THEN "citadel"
    ELSE IF InvalidRange(id) THEN "range"
    ELSE ""

\* updateLocationInCache: the lifetime of a fetched entry
TTL(id) ==
    IF api = "ESI"
    THEN (IF id > EsiConquerableAbove THEN HourTTL ELSE DayTTL)
    ELSE (IF id > CrestConquerableAbove THEN HourTTL ELSE DayTTL)

\* deduplicateIDs that keeps the list as it is
deduplicateIDsKeepAll(ids) == {ids}

\* deduplicateIDs: the ids of the map, in any iteration order
deduplicateIDs(ids) ==
    LET idSet == Range(ids)
    IN  {u \in [1..Cardinality(idSet) -> idSet] : Range(u) = idSet}

\* the key of the response map: int64 (part_003:249), decimal string (part_002:263)
ResponseKey(id) == IF api = "ESI" THEN id ELSE FormatInt(id)

\* GetLocations (gRPC): the error of getLocations is dropped
GetLocations(failed) == "OK"

\* GetLocationsEndpoint (HTTP): 207 for a partial result
GetLocationsEndpoint(failed) == IF failed THEN 207 ELSE 200

----------------------------------------------------------------------------
\* One goroutine resolving one id (getLocationAsync -> getCachedLocation).

NewTask(id) ==
    [id |-> id, pc |-> "start", level |-> "none", cur |-> 0, pending |-> <<>>,
     loc |-> ZeroCachedLocation, err |-> "", at |-> 0,
     \* storeStructure only: its arguments and the parsed id
     kind |-> "async", key |-> <<>>, structure |-> Nil, sid |-> 0, expireAt |-> 0,
     \* history of the resolution
     seenEntry |-> ZeroCachedLocation, upfail |-> FALSE,
     calls |-> 0, writes |-> 0]

\* a goroutine that goes on after its send
EndedNot(t) == t

\* a goroutine that has ended
Ended(t) == [NewTask(t.id) EXCEPT !.pc = "done"]

\* getCachedLocation's tail (part_003:287-297): the result that is sent
Returned(t, loc, err) ==
    IF err # "" THEN [t EXCEPT !.pc = "send", !.loc = loc, !.err = err]
    ELSE IF loc = ZeroCachedLocation
         THEN [t EXCEPT !.pc = "send", !.loc = loc, !.err = "novalid"]
         ELSE [t EXCEPT !.pc = "send", !.loc = loc]

\* an upstream call failed, and the entry is put all the same
FailedStillPuts(t, err) ==
    [t EXCEPT !.pc = "put", !.at = now, !.upfail = TRUE, !.err = err,
              !.loc = [ID |-> t.id, ExpiresAt |-> now + TTL(t.id),
                       Location |-> EmptyLocation]]

\* an upstream call failed: updateLocationInCache returns CachedLocation{}, err
Failed(t, err) == Returned([t EXCEPT !.upfail = TRUE], ZeroCachedLocation, err)

\* back in updateLocationInCache with rawLocation: the entry to put
Finish(t, rawLocation) ==
    [t EXCEPT !.pc = "put", !.at = now,
              !.loc = [ID |-> t.id, ExpiresAt |-> now + TTL(t.id),
                       Location |-> rawLocation]]

\* Splice that drops the parent's Location
RECURSIVE SpliceNoParent(_, _)
SpliceNoParent(base, pending) ==
    IF pending = <<>> THEN EmptyLocation
    ELSE SetFacet(SpliceNoParent(base, SubSeq(pending, 1, Len(pending) - 1)),
                  pending[Len(pending)].level, pending[Len(pending)].facet)

\* the facets fetched so far, set on the parent's Location
RECURSIVE Splice(_, _)
Splice(base, pending) ==
    IF pending = <<>> THEN base
    ELSE Splice(SetFacet(base, pending[Len(pending)].level,
                         pending[Len(pending)].facet),
                SubSeq(pending, 1, Len(pending) - 1))

\* a fetcher that does not resolve its parent when the cache has no entry for itself
DescendNoParent(t, level, id) ==
    LET c == fetchLocationFromCache(id)
    IN  Finish(t, Splice(IF c.needsUpdate THEN EmptyLocation ELSE c.location.Location,
                         t.pending))

\* entering fetchStation / fetchSolarSystem / fetchConstellation / fetchRegion
Descend(t, level, id) ==
    LET c == fetchLocationFromCache(id)
    IN  IF ~c.needsUpdate
        THEN Finish(t, Splice(c.location.Location, t.pending))
        ELSE [t EXCEPT !.pc = "detail", !.level = level, !.cur = id,
                       !.calls = @ + 1]

\* updateLocationInCache up to its first upstream call
updateLocationInCache(t) ==
    IF RangeError(t.id) # "" THEN Returned(t, ZeroCachedLocation, RangeError(t.id))
    ELSE IF api = "ESI" THEN [t EXCEPT !.pc = "names", !.calls = @ + 1]
    ELSE [t EXCEPT !.pc = "sem"]

\* history: the entry the bucket holds for id, ZeroCachedLocation when it holds none
Stored(id) ==
    IF FormatInt(id) \in DOMAIN cache THEN cache[FormatInt(id)] ELSE ZeroCachedLocation

\* history: how often id was found out of range
Refusals(id) == IF id \in DOMAIN refused THEN refused[id] ELSE 0

getCachedLocation(o, i) ==
    LET t == tasks[o][i]
        c == fetchLocationFromCache(t.id)
        t1 == [t EXCEPT !.seenEntry = Stored(t.id)]
    IN  /\ t.pc = "start"
        /\ tasks' = [tasks EXCEPT ![o][i] =
                IF c.needsUpdate THEN updateLocationInCache(t1)
                ELSE Returned(t1, c.location, "")]
        /\ refused' = IF c.needsUpdate /\ RangeError(t.id) = "range"
                            /\ Refusals(t.id) < MaxOps
                      THEN (t.id :> Refusals(t.id) + 1) @@ refused
                      ELSE refused
        /\ UNCHANGED <<sched, sjob, rjob, api, now, ticks, ops, cache, ghost, batch, sem>>

\* fetchLocationFromESI: the answer of PostUniverseNames
PostUniverseNames(o, i) ==
    LET t == tasks[o][i]
    IN  /\ t.pc = "names"
        /\ \E outcome \in {"err", "status", "ok"} :
            /\ healthy => outcome = "ok"
            /\ tasks' = [tasks EXCEPT ![o][i] =
                IF outcome = "err" THEN Failed(t, "names")
                ELSE IF outcome = "status" THEN Failed(t, "status")
                ELSE IF t.id \notin DOMAIN Universe THEN Failed(t, "empty")
                ELSE Descend(t, Universe[t.id].category, t.id)]
        /\ UNCHANGED <<sched, sjob, rjob, api, now, ticks, ops, cache, ghost, refused, batch, sem>>

\* the answer of the detail call of fetchStation .. fetchRegion
DetailReturn(o, i) ==
    LET t == tasks[o][i]
        t1 == [t EXCEPT !.pending = Append(@, [level |-> t.level,
                                               facet |-> Facet(t.level, t.cur)])]
    IN  /\ t.pc = "detail"
        /\ \E ok \in BOOLEAN :
            /\ healthy => ok
            /\ tasks' = [tasks EXCEPT ![o][i] =
                IF ~ok THEN Failed(t, "detail")
                ELSE IF t.level = "region"
                     THEN Finish(t1, Splice(EmptyLocation, t1.pending))
                     ELSE Descend(t1, ParentLevel(t.level), Universe[t.cur].parent)]
        /\ UNCHANGED <<sched, sjob, rjob, api, now, ticks, ops, cache, ghost, refused, batch, sem>>

\* fetchLocationFromCREST: crestSemaphore <- struct{}{}
AcquireSemaphore(o, i) ==
    /\ tasks[o][i].pc = "sem"
    /\ sem < SemaphoreCapacity
    /\ sem' = sem + 1
    /\ tasks' = [tasks EXCEPT ![o][i].pc = "crest", ![o][i].calls = @ + 1]
    /\ UNCHANGED <<sched, sjob, rjob, api, now, ticks, ops, cache, ghost, refused, batch>>

\* fetchLocationFromCREST: the answer, <-crestSemaphore
CrestReturn(o, i) ==
    LET t == tasks[o][i]
    IN  /\ t.pc = "crest"
        /\ sem' = sem - 1
        /\ \E outcome \in {"err", "status", "json", "ok"} :
            /\ outcome = "ok" => t.id \in DOMAIN Universe
            /\ healthy => (outcome = "ok" \/ t.id \notin DOMAIN Universe)
            /\ tasks' = [tasks EXCEPT ![o][i] =
                IF outcome = "ok" THEN Finish(t, CrestLocation(t.id))
                ELSE Failed(t, outcome)]
        /\ UNCHANGED <<sched, sjob, rjob, api, now, ticks, ops, cache, ghost, refused, batch>>

\* Put that replaces the bucket by the one entry
PutEvicting(entry, by) ==
    /\ cache' = (FormatInt(entry.ID) :> entry)
    /\ ghost' = (FormatInt(entry.ID) :> by)

\* Put under a key taken from the expiry time of the entry
PutKeyedByExpiry(entry, by) ==
    /\ cache' = (FormatInt(entry.ExpiresAt) :> entry) @@ cache
    /\ ghost' = (FormatInt(entry.ExpiresAt) :> by) @@ ghost

\* Put that writes the Location and keeps the expiry of the entry it finds
PutKeepsExpiry(entry, by) ==
    /\ cache' = (FormatInt(entry.ID) :>
                    IF FormatInt(entry.ID) \in DOMAIN cache
                    THEN [entry EXCEPT !.ExpiresAt = cache[FormatInt(entry.ID)].ExpiresAt]
                    ELSE entry) @@ cache
    /\ ghost' = (FormatInt(entry.ID) :> by) @@ ghost

\* putIntoCache: the batched write transaction, which may fail
Put(entry, by) ==
    /\ cache' = (FormatInt(entry.ID) :> entry) @@ cache
    /\ ghost' = (FormatInt(entry.ID) :> by) @@ ghost

putIntoCache(o, i) ==
    LET t == tasks[o][i]
    IN  /\ t.pc = "put"
        /\ \/ /\ Put(t.loc, "updateLocationInCache")
              /\ tasks' = [tasks EXCEPT ![o][i] =
                            Returned([t EXCEPT !.writes = @ + 1], t.loc, "")]
           \/ /\ ~healthy
              /\ tasks' = [tasks EXCEPT ![o][i] = Returned(t, t.loc, "put")]
              /\ UNCHANGED <<cache, ghost>>
        /\ UNCHANGED <<sched, sjob, rjob, api, now, ticks, ops, refused, batch, sem>>

----------------------------------------------------------------------------
\* getLocations.

Inputs == UNION {[1..n -> RequestIds] : n \in 0..MaxLen}

IdleBatch ==
    [st |-> "idle", input |-> <<>>, outstandingRequests |-> 0, failed |-> FALSE,
     response |-> <<>>, err |-> FALSE, status |-> "",
     \* history: what each goroutine sent, by its place in the launch order
     results |-> <<>>]

\* the refresh cycle has goroutines left
Refreshing ==
    \/ sjob.pc \notin {"idle", "done"}
    \/ rjob.pc \notin {"idle", "done"}
    \/ \E i \in DOMAIN tasks[StoreOwner] : tasks[StoreOwner][i].pc # "done"

InFlight ==
    Cardinality({b \in Batches : batch[b].st = "collecting"})
        + (IF Refreshing THEN 1 ELSE 0)

\* The values of calls that have returned and of goroutines that have ended are
\* garbage: they are dropped when the next request or refresh cycle starts.
ForgetBatch ==
    [c \in Callers |-> IF batch[c].st = "returned" THEN IdleBatch ELSE batch[c]]

ForgetTasks ==
    [o \in DOMAIN tasks |->
        IF o \in Callers
        THEN (IF batch[o].st = "returned" THEN <<>> ELSE tasks[o])
        ELSE (IF \A i \in DOMAIN tasks[o] : tasks[o][i].pc = "done"
              THEN <<>> ELSE tasks[o])]

\* getLocations up to its receive loop: one goroutine per id of the deduplicated list
StartBatch(b, ids) ==
    \E uniqueIDs \in deduplicateIDs(ids) :
        /\ batch' = [ForgetBatch EXCEPT ![b] =
                [IdleBatch EXCEPT !.st = "collecting", !.input = ids,
                                  !.outstandingRequests = Len(uniqueIDs)]]
        /\ tasks' = [ForgetTasks EXCEPT ![b] =
                [k \in 1..Len(uniqueIDs) |-> NewTask(uniqueIDs[k])]]

\* a request arrives
getLocations(b) ==
    /\ batch[b].st # "collecting"
    /\ ops < MaxOps
    /\ InFlight < MaxInFlight
    /\ ops' = ops + 1
    /\ \E ids \in Inputs : StartBatch(b, ids)
    /\ UNCHANGED <<sched, sjob, rjob, api, now, ticks, cache, ghost, refused, sem>>

\* Receive that stops waiting at the first failure
ReceiveAbort(bt, t) ==
    [bt EXCEPT
        !.outstandingRequests = IF t.err # "" THEN 0 ELSE @ - 1,
        !.failed = IF t.err # "" THEN TRUE ELSE @,
        !.response = IF t.err # "" THEN @
                     ELSE (ResponseKey(t.loc.ID) :> t.loc.Location) @@ @]

\* getLocations: one turn of the receive loop, on the message of goroutine t
Receive(bt, t) ==
    [bt EXCEPT
        !.outstandingRequests = @ - 1,
        !.failed = IF t.err # "" THEN TRUE ELSE @,
        !.response = IF t.err # "" THEN @
                     ELSE (ResponseKey(t.loc.ID) :> t.loc.Location) @@ @]

\* getLocationAsync sends, the select of getLocations receives
getLocationAsync(b, i) ==
    LET t == tasks[b][i]
    IN  /\ t.pc = "send"
        /\ batch[b].st = "collecting"
        /\ batch[b].outstandingRequests > 0
        /\ tasks' = [tasks EXCEPT ![b][i] = Ended(t)]
        /\ batch' = [batch EXCEPT ![b] =
                [Receive(batch[b], t) EXCEPT
                    !.results = (i :> [id |-> t.id, err |-> t.err,
                                       location |-> t.loc.Location]) @@ @]]
        /\ UNCHANGED <<sched, sjob, rjob, api, now, ticks, ops, cache, ghost, refused, sem>>

\* getLocations returns, and the endpoint answers
Return(b) ==
    /\ batch[b].st = "collecting"
    /\ batch[b].outstandingRequests = 0
    /\ batch' = [batch EXCEPT
            ![b].st = "returned",
            ![b].err = batch[b].failed,
            ![b].status = IF api = "ESI" THEN GetLocations(batch[b].failed)
                          ELSE GetLocationsEndpoint(batch[b].failed)]
    /\ UNCHANGED <<sched, sjob, rjob, api, now, ticks, ops, cache, ghost, refused, tasks, sem>>

\* the clock advances
TickSteps == {HourTTL, 2 * DayTTL}

\* An upstream call ends within its client's timeout of at most a minute (main.go:62,67),
\* far below a step of the clock: the clock steps between operations.
Tick ==
    /\ ticks < MaxTicks
    /\ InFlight = 0
    /\ \E d \in TickSteps : now' = now + d
    /\ ticks' = ticks + 1
    /\ UNCHANGED <<sched, sjob, rjob, api, ops, cache, ghost, refused, batch, tasks, sem>>

----------------------------------------------------------------------------
\* The background refresh.

\* answer is history: "failed" when the cycle ended because the feed was not obtained
IdleJob == [pc |-> "idle", feed |-> <<>>, answer |-> ""]
DoneJob == [pc |-> "done", feed |-> <<>>, answer |-> ""]
AbortedJob == [pc |-> "done", feed |-> <<>>, answer |-> "failed"]

IdleRegions == [pc |-> "idle", rest |-> <<>>, entry |-> ZeroCachedLocation]
DoneRegions == [pc |-> "done", rest |-> <<>>, entry |-> ZeroCachedLocation]

\* StartJobs that leaves a job that failed to obtain its feed where it ended
StartJobsNoRetry ==
    /\ ~Refreshing
    /\ sjob' = IF sjob.answer = "failed" THEN sjob ELSE [IdleJob EXCEPT !.pc = "get"]
    /\ rjob' = [IdleRegions EXCEPT !.pc = "list"]
    /\ batch' = ForgetBatch
    /\ tasks' = ForgetTasks

\* go updateStructures(); go updateRegions(): one cycle of each is in flight at a time
StartJobs ==
    /\ ~Refreshing
    /\ sjob' = [IdleJob EXCEPT !.pc = "get"]
    /\ rjob' = [IdleRegions EXCEPT !.pc = "list"]
    /\ batch' = ForgetBatch
    /\ tasks' = ForgetTasks

\* a refresh cycle within the bounds of the model
Spawn ==
    /\ ops < MaxOps
    /\ InFlight < MaxInFlight
    /\ ops' = ops + 1
    /\ StartJobs

\* scheduleStaticDataUpdate starts: "Load on start..." in the ESI revision only
scheduleStaticDataUpdate ==
    /\ sched = "init"
    /\ sched' = "ticking"
    /\ IF api = "ESI" THEN Spawn ELSE UNCHANGED <<ops, sjob, rjob, batch, tasks>>
    /\ UNCHANGED <<api, now, ticks, cache, ghost, refused, sem>>

\* <-ticker.C
TickerFires ==
    /\ sched = "ticking"
    /\ Spawn
    /\ UNCHANGED <<sched, api, now, ticks, cache, ghost, refused, sem>>

\* FeedFailed that goes on to resolve the system of a structure
FeedFailedGoesOn ==
    /\ sjob' = [AbortedJob EXCEPT !.pc = "resolve"]
    /\ StartBatch(0, <<301>>)

\* updateStructures: the feed was not obtained, "return" after the log line
FeedFailed ==
    /\ sjob' = AbortedJob
    /\ UNCHANGED <<batch, tasks>>

\* updateStructures: the answer of the feed, up to the start of getLocations(systemIDs)
updateStructures ==
    /\ sjob.pc = "get"
    /\ \/ /\ ~healthy
          /\ \E outcome \in {"err", "status", "body", "json"} :
                outcome = "body" => api = "ESI"
          /\ FeedFailed
       \/ \E allStructures \in thirdParty : \E order \in Orders(DOMAIN allStructures) :
            /\ sjob' = [sjob EXCEPT !.pc = "resolve", !.feed = allStructures]
            /\ StartBatch(0, [k \in DOMAIN order |-> allStructures[order[k]].SystemID])
    /\ UNCHANGED <<sched, rjob, api, now, ticks, ops, cache, ghost, refused, sem>>

\* go storeStructure(key, structure, expireAt), up to its call of getLocation
NewStore(key, structure, expireAt) ==
    LET id == ParseInt(key)
    IN  [NewTask(structure.SystemID) EXCEPT
            !.kind = "store", !.key = key, !.structure = structure,
            !.sid = id.value, !.expireAt = expireAt,
            !.pc = IF id.ok THEN "start" ELSE "done"]

\* storeStructures that launches the stores whatever getLocations returned
storeStructuresUngated ==
    /\ sjob.pc = "resolve"
    /\ batch[0].st = "collecting"
    /\ batch[0].outstandingRequests = 0
    /\ batch' = [batch EXCEPT ![0].st = "returned", ![0].err = batch[0].failed]
    /\ sjob' = DoneJob
    /\ \E order \in Orders(DOMAIN sjob.feed) :
            tasks' = [tasks EXCEPT ![StoreOwner] =
                [k \in DOMAIN order |->
                    NewStore(order[k], sjob.feed[order[k]], now + DayTTL)]]
    /\ UNCHANGED <<sched, rjob, api, now, ticks, ops, cache, ghost, refused, sem>>

\* updateStructures: getLocations(systemIDs) returns; on success the stores are launched
storeStructures ==
    /\ sjob.pc = "resolve"
    /\ batch[0].st = "collecting"
    /\ batch[0].outstandingRequests = 0
    /\ batch' = [batch EXCEPT ![0].st = "returned", ![0].err = batch[0].failed]
    /\ sjob' = DoneJob
    /\ IF batch[0].failed
       THEN UNCHANGED tasks
       ELSE \E order \in Orders(DOMAIN sjob.feed) :
            tasks' = [tasks EXCEPT ![StoreOwner] =
                [k \in DOMAIN order |->
                    NewStore(order[k], sjob.feed[order[k]], now + DayTTL)]]
    /\ UNCHANGED <<sched, rjob, api, now, ticks, ops, cache, ghost, refused, sem>>

\* the cache entry of a structure without the facets of its system
StructureEntryNoSystem(t) ==
    [ID |-> t.sid, ExpiresAt |-> t.expireAt,
     Location |->
        [Region |-> Nil, Constellation |-> Nil, SolarSystem |-> Nil,
         Station |-> [Id |-> t.sid, Name |-> t.structure.Name,
                      TypeId |-> t.structure.TypeID,
                      TypeName |-> t.structure.TypeName,
                      LastSeen |-> t.structure.LastSeen,
                      Public |-> t.structure.Public,
                      FirstSeen |-> t.structure.FirstSeen,
                      Coordinates |-> t.structure.Coordinates]]]

\* the cache entry of a structure: the system's ancestors and the structure as station
StructureEntry(t) ==
    [ID |-> t.sid, ExpiresAt |-> t.expireAt,
     Location |->
        [Region |-> t.loc.Location.Region,
         Constellation |-> t.loc.Location.Constellation,
         SolarSystem |-> t.loc.Location.SolarSystem,
         Station |-> [Id |-> t.sid, Name |-> t.structure.Name,
                      TypeId |-> t.structure.TypeID,
                      TypeName |-> t.structure.TypeName,
                      LastSeen |-> t.structure.LastSeen,
                      Public |-> t.structure.Public,
                      FirstSeen |-> t.structure.FirstSeen,
                      Coordinates |-> t.structure.Coordinates]]]

\* storeStructure: getLocation(structure.SystemID) has returned
storeStructure(i) ==
    LET t == tasks[StoreOwner][i]
    IN  /\ t.pc = "send"
        /\ tasks' = [tasks EXCEPT ![StoreOwner][i] =
                IF t.err # "" THEN Ended(t)
                ELSE [t EXCEPT !.pc = "sput", !.loc = StructureEntry(t)]]
        /\ UNCHANGED <<sched, sjob, rjob, api, now, ticks, ops, cache, ghost, refused, batch, sem>>

\* storeStructure: putIntoCache(cachedLocation)
storePut(i) ==
    LET t == tasks[StoreOwner][i]
    IN  /\ t.pc = "sput"
        /\ \/ /\ Put(t.loc, "storeStructure")
              /\ tasks' = [tasks EXCEPT ![StoreOwner][i] = Ended(t)]
           \/ /\ ~healthy
              /\ tasks' = [tasks EXCEPT ![StoreOwner][i] = Ended(t)]
              /\ UNCHANGED <<cache, ghost>>
        /\ UNCHANGED <<sched, sjob, rjob, api, now, ticks, ops, refused, batch, sem>>

\* updateRegions: the answer of GetUniverseRegions
updateRegions ==
    /\ rjob.pc = "list"
    /\ \/ ~healthy /\ rjob' = DoneRegions
       \/ rjob' = [rjob EXCEPT !.pc = "detail", !.rest = RegionList]
    /\ UNCHANGED <<sched, sjob, api, now, ticks, ops, cache, ghost, refused, batch, tasks, sem>>

\* updateRegions: the answer of GetUniverseRegionsRegionId for the next id
RegionDetail ==
    /\ rjob.pc = "detail"
    /\ \/ ~healthy /\ rjob' = DoneRegions
       \/ rjob' = [rjob EXCEPT !.pc = "put",
                !.entry = [ID |-> Head(rjob.rest), ExpiresAt |-> now + DayTTL,
                           Location |-> SetFacet(EmptyLocation, "region",
                                            Facet("region", Head(rjob.rest)))]]
    /\ UNCHANGED <<sched, sjob, api, now, ticks, ops, cache, ghost, refused, batch, tasks, sem>>

\* RegionPut that goes on with the next id after a failed write
RegionPutGoesOn ==
    /\ rjob.pc = "put"
    /\ \/ /\ ~healthy
          /\ rjob' = IF Len(rjob.rest) > 1
                     THEN [IdleRegions EXCEPT !.pc = "detail", !.rest = Tail(rjob.rest)]
                     ELSE DoneRegions
          /\ UNCHANGED <<cache, ghost>>
       \/ /\ Put(rjob.entry, "updateRegions")
          /\ rjob' = IF Len(rjob.rest) > 1
                     THEN [IdleRegions EXCEPT !.pc = "detail", !.rest = Tail(rjob.rest)]
                     ELSE DoneRegions
    /\ UNCHANGED <<sched, sjob, api, now, ticks, ops, refused, batch, tasks, sem>>

\* updateRegions: putIntoCache(cachedLocation), then the next id
RegionPut ==
    /\ rjob.pc = "put"
    /\ \/ /\ ~healthy
          /\ rjob' = DoneRegions
          /\ UNCHANGED <<cache, ghost>>
       \/ /\ Put(rjob.entry, "updateRegions")
          /\ rjob' = IF Len(rjob.rest) > 1
                     THEN [IdleRegions EXCEPT !.pc = "detail", !.rest = Tail(rjob.rest)]
                     ELSE DoneRegions
    /\ UNCHANGED <<sched, sjob, api, now, ticks, ops, refused, batch, tasks, sem>>

----------------------------------------------------------------------------
\* Market types (part_005).

\* refresh cycles of one behaviour
MaxCycles == 2

\* part_005:177: retries := 3
Retries == 3

\* part_005:51: esiSemaphore = make(chan struct{}, 200)
EsiSemaphoreCapacity == 200

\* type ids of the large catalog
MaxTypes == 201

\* goroutines of the large catalog whose first call failed
MaxRetrying == 1

\* no goroutine of the large catalog launched
IdlePool ==
    [launched |-> FALSE,
     waiting |-> [r \in 1..Retries |-> 0],
     calling |-> [r \in 1..Retries |-> 0],
     finished |-> 0,
     failed |-> 0]

\* goroutines of the large catalog that are past a failed call
Retrying ==
    pool.waiting[2] + pool.calling[2] + pool.waiting[3] + pool.calling[3] + pool.failed

\* calls to GetUniverseTypesTypeId that were issued and have not returned
TypeCallsInFlight == pool.calling[1] + pool.calling[2] + pool.calling[3]

\* GetUniverseTypesTypeId: what the upstream answers for each type id
TypeInfo ==
    (34 :> [Published |-> TRUE, MarketGroupId |-> 18])
 @@ (35 :> [Published |-> FALSE, MarketGroupId |-> 18])
 @@ (300 :> [Published |-> TRUE, MarketGroupId |-> 0])
 @@ (587 :> [Published |-> TRUE, MarketGroupId |-> 61])

\* GetUniverseTypes: the catalogs the upstream may hold, each a sequence of pages; the
\* last one has a page after an empty page
Catalogs ==
    {<<>>, <<<<300>>>>, <<<<34, 35>>>>, <<<<587>>, <<300>>>>, <<<<34>>, <<>>, <<587>>>>}

\* GetUniverseTypes with params["page"] = p
PageOf(catalog, p) == IF p \in DOMAIN catalog THEN catalog[p] ELSE <<>>

\* proto.Marshal of GetMarketTypesResponse: the ids as base-128 varints, low group first
RECURSIVE Varint(_)
Varint(n) ==
    IF n < 128 THEN <<n>> ELSE <<128 + (n % 128)>> \o Varint(n \div 128)

RECURSIVE Marshal(_)
Marshal(ids) == IF ids = <<>> THEN <<>> ELSE Varint(Head(ids)) \o Marshal(Tail(ids))

\* proto.Unmarshal: (ok, ids); a blob that ends inside a varint does not parse
RECURSIVE Decode(_, _, _, _)
Decode(blob, acc, scale, ids) ==
    IF blob = <<>> THEN [ok |-> scale = 1, ids |-> ids]
    ELSE IF Head(blob) >= 128
         THEN Decode(Tail(blob), acc + (Head(blob) - 128) * scale, scale * 128, ids)
         ELSE Decode(Tail(blob), 0, 1, Append(ids, acc + Head(blob) * scale))

Unmarshal(blob) == Decode(blob, 0, 1, <<>>)

\* bucket.Get([]byte("ids")) == nil
NoBlob == [present |-> FALSE, blob |-> <<>>]

\* history: no list has been persisted
NoList == [present |-> FALSE, ids |-> <<>>]

NoReply == [code |-> "", typeIds |-> <<>>, seen |-> NoList]

\* GetMarketTypes that takes an empty blob for a missing one
ReadTypesEmptyIsMissing(b) ==
    IF ~b.present \/ b.blob = <<>> THEN [code |-> "NotFound", typeIds |-> <<>>]
    ELSE IF ~Unmarshal(b.blob).ok THEN [code |-> "NotFound", typeIds |-> <<>>]
    ELSE [code |-> "OK", typeIds |-> Unmarshal(b.blob).ids]

\* GetMarketTypes: the answer for the value b of key "ids"
ReadTypes(b) ==
    IF ~b.present THEN [code |-> "NotFound", typeIds |-> <<>>]
    ELSE IF ~Unmarshal(b.blob).ok THEN [code |-> "NotFound", typeIds |-> <<>>]
    ELSE [code |-> "OK", typeIds |-> Unmarshal(b.blob).ids]

GetMarketTypes ==
    /\ reply' = [code |-> ReadTypes(bucket).code, typeIds |-> ReadTypes(bucket).typeIds,
                 seen |-> persisted]
    /\ UNCHANGED <<esiSemaphore, bucket, persisted, mjob, workers, cycles>>

IdleTypes ==
    [pc |-> "idle", typesLeft |-> 0, marketTypeIDs |-> <<>>,
     \* getTypeIDs: the page requested last and the ids appended so far
     page |-> 0, typeIDs |-> <<>>,
     \* the catalog the upstream holds during the cycle
     catalog |-> <<>>,
     \* the last log line of the cycle: "failed" for a warning, "done" for
     \* "Done updating market types!"
     answer |-> "",
     \* history: the write transaction of the cycle failed
     dbfail |-> FALSE]

\* go checkIfMarketTypeAsyncRetry(id, ...)
NewWorker(typeID) ==
    [typeID |-> typeID, pc |-> "acquire", retries |-> Retries, isMarketType |-> FALSE,
     err |-> FALSE,
     \* history: calls made, calls that failed, messages sent
     calls |-> 0, fails |-> 0, sent |-> 0]

\* go updateMarketTypes(): at start and then on every tick of the 24 h ticker
scheduleMarketTypeUpdate ==
    /\ mjob.pc \in {"idle", "done"}
    /\ cycles < MaxCycles
    /\ cycles' = cycles + 1
    /\ \E catalog \in Catalogs :
        mjob' = [IdleTypes EXCEPT !.pc = "types", !.catalog = catalog]
    /\ workers' = <<>>
    /\ UNCHANGED <<esiSemaphore, bucket, persisted, reply>>

\* getTypeIDs that returns after its first page
AfterPageOnlyFirst(j, typeResult) ==
    [j EXCEPT !.page = @ + 1, !.typeIDs = @ \o typeResult,
              !.pc = "collect", !.typesLeft = Len(j.typeIDs \o typeResult)]

\* getTypeIDs: the answer for the next page is appended; an empty one ends the loop
AfterPage(j, typeResult) ==
    IF typeResult = <<>>
    THEN [j EXCEPT !.page = @ + 1, !.pc = "collect", !.typesLeft = Len(j.typeIDs)]
    ELSE [j EXCEPT !.page = @ + 1, !.typeIDs = @ \o typeResult]

\* getTypeIDs: one request for a page, which may fail; after the last page
\* getMarketTypes launches one goroutine per type id
getTypeIDs ==
    /\ mjob.pc = "types"
    /\ \/ /\ mjob' = [IdleTypes EXCEPT !.pc = "done", !.answer = "failed"]
          /\ UNCHANGED workers
       \/ /\ mjob' = AfterPage(mjob, PageOf(mjob.catalog, mjob.page + 1))
          /\ workers' = IF mjob'.pc = "collect"
                        THEN [k \in DOMAIN mjob'.typeIDs |-> NewWorker(mjob'.typeIDs[k])]
                        ELSE workers
    /\ UNCHANGED <<esiSemaphore, bucket, persisted, reply, cycles>>

\* checkIfMarketType: esiSemaphore <- struct{}{}
TypeAcquire(i) ==
    /\ workers[i].pc = "acquire"
    /\ esiSemaphore < EsiSemaphoreCapacity
    /\ esiSemaphore' = esiSemaphore + 1
    /\ workers' = [workers EXCEPT ![i].pc = "call", ![i].calls = @ + 1]
    /\ UNCHANGED <<bucket, persisted, mjob, reply, cycles>>

\* the retry loop that gives up at the first failure
AfterAttemptNoRetry(w, failed) ==
    IF failed
    THEN [w EXCEPT !.err = TRUE, !.fails = @ + 1, !.retries = 0, !.pc = "send"]
    ELSE [w EXCEPT !.err = FALSE, !.retries = 0, !.pc = "send",
              !.isMarketType = TypeInfo[w.typeID].Published
                                /\ TypeInfo[w.typeID].MarketGroupId # 0]

\* checkIfMarketTypeAsyncRetry: one turn of the retry loop, after checkIfMarketType
AfterAttempt(w, failed) ==
    IF failed
    THEN [w EXCEPT !.err = TRUE, !.fails = @ + 1, !.retries = @ - 1,
              !.isMarketType = FALSE,
              !.pc = IF w.retries - 1 > 0 THEN "acquire" ELSE "send"]
    ELSE [w EXCEPT !.err = FALSE, !.retries = 0, !.pc = "send",
              !.isMarketType = TypeInfo[w.typeID].Published
                                /\ TypeInfo[w.typeID].MarketGroupId # 0]

\* checkIfMarketType: GetUniverseTypesTypeId returns, <-esiSemaphore
TypeRelease(i) ==
    /\ workers[i].pc = "call"
    /\ esiSemaphore' = esiSemaphore - 1
    /\ \E failed \in BOOLEAN :
        workers' = [workers EXCEPT ![i] = AfterAttempt(workers[i], failed)]
    /\ UNCHANGED <<bucket, persisted, mjob, reply, cycles>>

\* getMarketTypes: one turn of the select, on the message of goroutine i
TypeReceive(i) ==
    /\ workers[i].pc = "send"
    /\ mjob.pc = "collect"
    /\ mjob.typesLeft > 0
    /\ workers' = [workers EXCEPT ![i].pc = "done", ![i].sent = @ + 1]
    /\ mjob' = [mjob EXCEPT
            !.typesLeft = @ - 1,
            !.marketTypeIDs = IF ~workers[i].err /\ workers[i].isMarketType
                              THEN Append(@, workers[i].typeID) ELSE @]
    /\ UNCHANGED <<esiSemaphore, bucket, persisted, reply, cycles>>

\* updateMarketTypes that adds the ids of the cycle to the stored list
updateMarketTypesMerging ==
    /\ mjob.pc = "collect"
    /\ mjob.typesLeft = 0
    /\ \/ /\ bucket' = [present |-> TRUE,
                         blob |-> Marshal(persisted.ids \o mjob.marketTypeIDs)]
          /\ persisted' = [present |-> TRUE, ids |-> persisted.ids \o mjob.marketTypeIDs]
          /\ mjob' = [IdleTypes EXCEPT !.pc = "done", !.answer = "done"]
       \/ /\ UNCHANGED <<bucket, persisted>>
          /\ mjob' = [IdleTypes EXCEPT !.pc = "done", !.answer = "done",
                                       !.dbfail = TRUE]
    /\ UNCHANGED <<esiSemaphore, workers, reply, cycles>>

\* updateMarketTypes: proto.Marshal, then db.Update, whose error is not looked at
updateMarketTypes ==
    /\ mjob.pc = "collect"
    /\ mjob.typesLeft = 0
    /\ \/ /\ bucket' = [present |-> TRUE, blob |-> Marshal(mjob.marketTypeIDs)]
          /\ persisted' = [present |-> TRUE, ids |-> mjob.marketTypeIDs]
          /\ mjob' = [IdleTypes EXCEPT !.pc = "done", !.answer = "done"]
       \/ /\ UNCHANGED <<bucket, persisted>>
          /\ mjob' = [IdleTypes EXCEPT !.pc = "done", !.answer = "done",
                                       !.dbfail = TRUE]
    /\ UNCHANGED <<esiSemaphore, workers, reply, cycles>>

----------------------------------------------------------------------------

Boot ==
    /\ api \in {"ESI", "CREST"}
    /\ now = StartTime
    /\ ticks = 0
    /\ ops = 0
    /\ cache = <<>>
    /\ ghost = <<>>
    /\ refused = <<>>
    /\ batch = [b \in Callers |-> IdleBatch]
    /\ tasks = [o \in Callers \cup {StoreOwner} |-> <<>>]
    /\ sem = 0
    /\ sched = "init"
    /\ sjob = IdleJob
    /\ rjob = IdleRegions
    /\ fanStart = 0
    /\ fanCalling = [s \in 1..EsiCalls |-> 0]
    /\ esiSemaphore = 0
    /\ bucket = NoBlob
    /\ persisted = NoList
    /\ mjob = IdleTypes
    /\ workers = <<>>
    /\ reply = NoReply
    /\ cycles = 0
    /\ pool = IdlePool

\* the upstream APIs may fail, and the third party API may answer with any feed
Init ==
    /\ Boot
    /\ healthy = FALSE
    /\ thirdParty = Feeds

Next ==
    \/ Tick /\ UNCHANGED <<envVars, fanVars, typeVars, pool>>
    \/ \E b \in Batches : getLocations(b) /\ UNCHANGED <<envVars, fanVars, typeVars, pool>>
    \/ \E b \in Batches : Return(b) /\ UNCHANGED <<envVars, fanVars, typeVars, pool>>
    \/ \E b \in Callers : \E i \in DOMAIN tasks[b] : getLocationAsync(b, i) /\ UNCHANGED <<envVars, fanVars, typeVars, pool>>
    \/ scheduleStaticDataUpdate /\ UNCHANGED <<envVars, fanVars, typeVars, pool>>
    \/ TickerFires /\ UNCHANGED <<envVars, fanVars, typeVars, pool>>
    \/ updateStructures /\ UNCHANGED <<envVars, fanVars, typeVars, pool>>
    \/ storeStructures /\ UNCHANGED <<envVars, fanVars, typeVars, pool>>
    \/ \E i \in DOMAIN tasks[StoreOwner] : storeStructure(i) /\ UNCHANGED <<envVars, fanVars, typeVars, pool>>
    \/ \E i \in DOMAIN tasks[StoreOwner] : storePut(i) /\ UNCHANGED <<envVars, fanVars, typeVars, pool>>
    \/ updateRegions /\ UNCHANGED <<envVars, fanVars, typeVars, pool>>
    \/ RegionDetail /\ UNCHANGED <<envVars, fanVars, typeVars, pool>>
    \/ RegionPut /\ UNCHANGED <<envVars, fanVars, typeVars, pool>>
    \/ \E o \in DOMAIN tasks : \E i \in DOMAIN tasks[o] : getCachedLocation(o, i) /\ UNCHANGED <<envVars, fanVars, typeVars, pool>>
    \/ \E o \in DOMAIN tasks : \E i \in DOMAIN tasks[o] : PostUniverseNames(o, i) /\ UNCHANGED <<envVars, fanVars, typeVars, pool>>
    \/ \E o \in DOMAIN tasks : \E i \in DOMAIN tasks[o] : DetailReturn(o, i) /\ UNCHANGED <<envVars, fanVars, typeVars, pool>>
    \/ \E o \in DOMAIN tasks : \E i \in DOMAIN tasks[o] : AcquireSemaphore(o, i) /\ UNCHANGED <<envVars, fanVars, typeVars, pool>>
    \/ \E o \in DOMAIN tasks : \E i \in DOMAIN tasks[o] : CrestReturn(o, i) /\ UNCHANGED <<envVars, fanVars, typeVars, pool>>
    \/ \E o \in DOMAIN tasks : \E i \in DOMAIN tasks[o] : putIntoCache(o, i) /\ UNCHANGED <<envVars, fanVars, typeVars, pool>>

Spec == Init /\ [][Next]_vars

----------------------------------------------------------------------------
\* The fan-out of getLocations for a long id list ("typical requests query around
\* 1,000 locations", README): the goroutines are counted by the place they are at.

\* most goroutines of one call
MaxFanOut == 21

\* the upstream calls that are in flight
InFlightCalls ==
    LET RECURSIVE Sum(_)
        Sum(s) == IF s = 0 THEN 0 ELSE fanCalling[s] + Sum(s - 1)
    IN  Sum(EsiCalls)

\* getLocations: go getLocationAsync(id, ...) for each of n distinct ids
FanOutLaunch ==
    /\ fanStart = 0
    /\ InFlightCalls = 0
    /\ \E n \in 1..MaxFanOut : fanStart' = n
    /\ fanCalling' = [s \in 1..EsiCalls |-> 0]
    /\ UNCHANGED locVars

\* getCachedLocation returns the entry of the cache: the goroutine makes no call
FanOutCacheHit ==
    /\ fanStart > 0
    /\ fanStart' = fanStart - 1
    /\ UNCHANGED <<locVars, fanCalling>>

\* fetchLocationFromESI: the goroutine calls PostUniverseNames
FanOutNames ==
    /\ api = "ESI"
    /\ fanStart > 0
    /\ fanStart' = fanStart - 1
    /\ fanCalling' = [fanCalling EXCEPT ![1] = @ + 1]
    /\ UNCHANGED locVars

\* call s of a resolution returns: the resolution ends (an error, a cached parent, the
\* region reached) or goes on to the parent's detail call
FanOutEsiReturn(s) ==
    /\ api = "ESI"
    /\ fanCalling[s] > 0
    /\ \/ fanCalling' = [fanCalling EXCEPT ![s] = @ - 1]
       \/ /\ s < EsiCalls
          /\ fanCalling' = [fanCalling EXCEPT ![s] = @ - 1, ![s + 1] = @ + 1]
    /\ UNCHANGED <<locVars, fanStart>>

\* fetchLocationFromCREST: crestSemaphore <- struct{}{}, then the request
FanOutAcquire ==
    /\ api = "CREST"
    /\ fanStart > 0
    /\ sem < SemaphoreCapacity
    /\ sem' = sem + 1
    /\ fanStart' = fanStart - 1
    /\ fanCalling' = [fanCalling EXCEPT ![1] = @ + 1]
    /\ UNCHANGED <<api, now, ticks, ops, cache, ghost, refused, batch, tasks, sched,
                   sjob, rjob>>

\* fetchLocationFromCREST: the answer, <-crestSemaphore
FanOutRelease ==
    /\ api = "CREST"
    /\ fanCalling[1] > 0
    /\ sem' = sem - 1
    /\ fanCalling' = [fanCalling EXCEPT ![1] = @ - 1]
    /\ UNCHANGED <<api, now, ticks, ops, cache, ghost, refused, batch, tasks, sched,
                   sjob, rjob, fanStart>>

FanOutNext ==
    \/ FanOutLaunch /\ UNCHANGED <<envVars, typeVars, pool>>
    \/ FanOutCacheHit /\ UNCHANGED <<envVars, typeVars, pool>>
    \/ FanOutNames /\ UNCHANGED <<envVars, typeVars, pool>>
    \/ \E s \in 1..EsiCalls : FanOutEsiReturn(s) /\ UNCHANGED <<envVars, typeVars, pool>>
    \/ FanOutAcquire /\ UNCHANGED <<envVars, typeVars, pool>>
    \/ FanOutRelease /\ UNCHANGED <<envVars, typeVars, pool>>

FanOut == Init /\ [][FanOutNext]_vars

\* The background refresh alone, with a ticker that goes on for ever and a third party
\* API that answers with one feed; the upstream APIs fail until they are healed.
\* the feeds, and one with two citadels in Jita
RefreshFeeds ==
    Feeds \cup { (KeyA :> Structure("Tranquility Trading Tower", 301))
                    @@ (KeyB :> Structure("Perimeter Market", 301)) }

RefreshInit ==
    /\ Boot
    /\ healthy = FALSE
    /\ thirdParty \in {{f} : f \in RefreshFeeds}

\* from here on every call succeeds
Heal ==
    /\ ~healthy
    /\ healthy' = TRUE
    /\ UNCHANGED <<locVars, thirdParty>>

\* scheduleStaticDataUpdate up to its loop
RefreshStart ==
    /\ sched = "init"
    /\ sched' = "ticking"
    /\ IF api = "ESI" THEN StartJobs ELSE UNCHANGED <<sjob, rjob, batch, tasks>>
    /\ UNCHANGED <<api, now, ticks, ops, cache, ghost, refused, sem, envVars>>

\* <-ticker.C, every 30 minutes
RefreshTick ==
    /\ sched = "ticking"
    /\ StartJobs
    /\ UNCHANGED <<sched, api, now, ticks, ops, cache, ghost, refused, sem, envVars>>

\* what the scheduler, the jobs and the goroutines do, as opposed to the world
RefreshProgress ==
    \/ RefreshStart /\ UNCHANGED <<fanVars, typeVars, pool>>
    \/ RefreshTick /\ UNCHANGED <<fanVars, typeVars, pool>>
    \/ updateStructures /\ UNCHANGED <<envVars, fanVars, typeVars, pool>>
    \/ storeStructures /\ UNCHANGED <<envVars, fanVars, typeVars, pool>>
    \/ \E i \in DOMAIN tasks[0] : getLocationAsync(0, i) /\ UNCHANGED <<envVars, fanVars, typeVars, pool>>
    \/ \E i \in DOMAIN tasks[StoreOwner] : storeStructure(i) /\ UNCHANGED <<envVars, fanVars, typeVars, pool>>
    \/ \E i \in DOMAIN tasks[StoreOwner] : storePut(i) /\ UNCHANGED <<envVars, fanVars, typeVars, pool>>
    \/ updateRegions /\ UNCHANGED <<envVars, fanVars, typeVars, pool>>
    \/ RegionDetail /\ UNCHANGED <<envVars, fanVars, typeVars, pool>>
    \/ RegionPut /\ UNCHANGED <<envVars, fanVars, typeVars, pool>>
    \/ \E o \in DOMAIN tasks : \E i \in DOMAIN tasks[o] : getCachedLocation(o, i) /\ UNCHANGED <<envVars, fanVars, typeVars, pool>>
    \/ \E o \in DOMAIN tasks : \E i \in DOMAIN tasks[o] : PostUniverseNames(o, i) /\ UNCHANGED <<envVars, fanVars, typeVars, pool>>
    \/ \E o \in DOMAIN tasks : \E i \in DOMAIN tasks[o] : DetailReturn(o, i) /\ UNCHANGED <<envVars, fanVars, typeVars, pool>>
    \/ \E o \in DOMAIN tasks : \E i \in DOMAIN tasks[o] : AcquireSemaphore(o, i) /\ UNCHANGED <<envVars, fanVars, typeVars, pool>>
    \/ \E o \in DOMAIN tasks : \E i \in DOMAIN tasks[o] : CrestReturn(o, i) /\ UNCHANGED <<envVars, fanVars, typeVars, pool>>
    \/ \E o \in DOMAIN tasks : \E i \in DOMAIN tasks[o] : putIntoCache(o, i) /\ UNCHANGED <<envVars, fanVars, typeVars, pool>>

RefreshNext ==
    \/ Heal /\ UNCHANGED <<fanVars, typeVars, pool>>
    \/ RefreshProgress

\* the ticker keeps firing and the Go scheduler runs every goroutine that can run
Refresh == RefreshInit /\ [][RefreshNext]_vars /\ WF_vars(RefreshProgress)

\* The requests alone: clients call, the goroutines of each call run and the call returns.
CallsSteps ==
    \/ \E b \in Batches : \E i \in DOMAIN tasks[b] : getLocationAsync(b, i) /\ UNCHANGED <<envVars, fanVars, typeVars, pool>>
    \/ \E b \in Batches : Return(b) /\ UNCHANGED <<envVars, fanVars, typeVars, pool>>
    \/ \E o \in Batches : \E i \in DOMAIN tasks[o] : getCachedLocation(o, i) /\ UNCHANGED <<envVars, fanVars, typeVars, pool>>
    \/ \E o \in Batches : \E i \in DOMAIN tasks[o] : PostUniverseNames(o, i) /\ UNCHANGED <<envVars, fanVars, typeVars, pool>>
    \/ \E o \in Batches : \E i \in DOMAIN tasks[o] : DetailReturn(o, i) /\ UNCHANGED <<envVars, fanVars, typeVars, pool>>
    \/ \E o \in Batches : \E i \in DOMAIN tasks[o] : AcquireSemaphore(o, i) /\ UNCHANGED <<envVars, fanVars, typeVars, pool>>
    \/ \E o \in Batches : \E i \in DOMAIN tasks[o] : CrestReturn(o, i) /\ UNCHANGED <<envVars, fanVars, typeVars, pool>>
    \/ \E o \in Batches : \E i \in DOMAIN tasks[o] : putIntoCache(o, i) /\ UNCHANGED <<envVars, fanVars, typeVars, pool>>

CallsNext ==
    \/ \E b \in Batches : getLocations(b) /\ UNCHANGED <<envVars, fanVars, typeVars, pool>>
    \/ CallsSteps

\* every upstream call ends (the clients' timeouts, main.go:62,67) and the Go scheduler
\* runs every goroutine that can run
Calls == Init /\ [][CallsNext]_vars /\ WF_vars(CallsSteps)

\* A request that runs while the background refresh runs: the ticker starts a cycle
\* whatever is in flight (part_003:54-68) and a client calls at any time. The request
\* asks for one id that the refresh resolves or writes as well.
RaceIds == {101, 301}

RaceInputs == {<<id>> : id \in RaceIds}

RaceInit ==
    /\ Boot
    /\ healthy = FALSE
    /\ thirdParty = {(KeyA :> Structure("Tranquility Trading Tower", 301))}

\* a request arrives, whatever is in flight
RaceRequest(b) ==
    /\ batch[b].st # "collecting"
    /\ ops < MaxOps
    /\ ops' = ops + 1
    /\ \E ids \in RaceInputs : StartBatch(b, ids)
    /\ UNCHANGED <<sched, sjob, rjob, api, now, ticks, cache, ghost, refused, sem>>

\* <-ticker.C, whatever is in flight
RaceTicker ==
    /\ sched = "ticking"
    /\ ops < MaxOps
    /\ ops' = ops + 1
    /\ StartJobs
    /\ UNCHANGED <<sched, api, now, ticks, cache, ghost, refused, sem>>

\* time.Now() moves on by a second while goroutines run
RaceClock ==
    /\ ticks < MaxTicks
    /\ InFlight > 0
    /\ now' = now + 1
    /\ ticks' = ticks + 1
    /\ UNCHANGED <<sched, sjob, rjob, api, ops, cache, ghost, refused, batch, tasks, sem>>

RaceNext ==
    \/ \E b \in Batches : RaceRequest(b) /\ UNCHANGED <<envVars, fanVars, typeVars, pool>>
    \/ RefreshStart /\ UNCHANGED <<fanVars, typeVars, pool>>
    \/ RaceTicker /\ UNCHANGED <<envVars, fanVars, typeVars, pool>>
    \/ RaceClock /\ UNCHANGED <<envVars, fanVars, typeVars, pool>>
    \/ \E b \in Batches : Return(b) /\ UNCHANGED <<envVars, fanVars, typeVars, pool>>
    \/ \E b \in Callers : \E i \in DOMAIN tasks[b] : getLocationAsync(b, i) /\ UNCHANGED <<envVars, fanVars, typeVars, pool>>
    \/ updateStructures /\ UNCHANGED <<envVars, fanVars, typeVars, pool>>
    \/ storeStructures /\ UNCHANGED <<envVars, fanVars, typeVars, pool>>
    \/ \E i \in DOMAIN tasks[StoreOwner] : storeStructure(i) /\ UNCHANGED <<envVars, fanVars, typeVars, pool>>
    \/ \E i \in DOMAIN tasks[StoreOwner] : storePut(i) /\ UNCHANGED <<envVars, fanVars, typeVars, pool>>
    \/ updateRegions /\ UNCHANGED <<envVars, fanVars, typeVars, pool>>
    \/ RegionDetail /\ UNCHANGED <<envVars, fanVars, typeVars, pool>>
    \/ RegionPut /\ UNCHANGED <<envVars, fanVars, typeVars, pool>>
    \/ \E o \in DOMAIN tasks : \E i \in DOMAIN tasks[o] : getCachedLocation(o, i) /\ UNCHANGED <<envVars, fanVars, typeVars, pool>>
    \/ \E o \in DOMAIN tasks : \E i \in DOMAIN tasks[o] : PostUniverseNames(o, i) /\ UNCHANGED <<envVars, fanVars, typeVars, pool>>
    \/ \E o \in DOMAIN tasks : \E i \in DOMAIN tasks[o] : DetailReturn(o, i) /\ UNCHANGED <<envVars, fanVars, typeVars, pool>>
    \/ \E o \in DOMAIN tasks : \E i \in DOMAIN tasks[o] : AcquireSemaphore(o, i) /\ UNCHANGED <<envVars, fanVars, typeVars, pool>>
    \/ \E o \in DOMAIN tasks : \E i \in DOMAIN tasks[o] : CrestReturn(o, i) /\ UNCHANGED <<envVars, fanVars, typeVars, pool>>
    \/ \E o \in DOMAIN tasks : \E i \in DOMAIN tasks[o] : putIntoCache(o, i) /\ UNCHANGED <<envVars, fanVars, typeVars, pool>>

Race == RaceInit /\ [][RaceNext]_vars

\* Requests for one id each, over ids at the ends of the accepted range, of the 32 bit
\* integers and of the citadels: 2147400000 is below 2^31, 2147500000 above it,
\* 4295000000 above 2^32.
WideIds ==
    {-1, 0, 101, 301, 601, 640, 641, 21474, 21475, 42950, CitadelBound, CitadelBound + 1}

WideInputs == {<<id>> : id \in WideIds}

\* a request arrives
WideRequest(b) ==
    /\ batch[b].st # "collecting"
    /\ ops < MaxOps
    /\ ops' = ops + 1
    /\ \E ids \in WideInputs : StartBatch(b, ids)
    /\ UNCHANGED <<sched, sjob, rjob, api, now, ticks, cache, ghost, refused, sem>>

WideNext ==
    \/ \E b \in Batches : WideRequest(b) /\ UNCHANGED <<envVars, fanVars, typeVars, pool>>
    \/ CallsSteps

Wide == Init /\ [][WideNext]_vars

\* The limiter of the market types: the goroutines of one cycle over a catalog larger
\* than the limiter, counted by the attempt they are at. A goroutine that was not
\* launched yet behaves as one that waits and was not scheduled yet, so the launches of
\* the loop are taken in one step.
LimiterLaunch ==
    /\ ~pool.launched
    /\ \E n \in {1, EsiSemaphoreCapacity, MaxTypes} :
        pool' = [pool EXCEPT !.launched = TRUE, !.waiting[1] = n]
    /\ UNCHANGED typeVars

\* checkIfMarketType without its limiter
LimiterAcquireUnbounded(r) ==
    /\ pool.waiting[r] > 0
    /\ esiSemaphore' = esiSemaphore + 1
    /\ pool' = [pool EXCEPT !.waiting[r] = @ - 1, !.calling[r] = @ + 1]
    /\ UNCHANGED <<bucket, persisted, mjob, workers, reply, cycles>>

\* checkIfMarketType: esiSemaphore <- struct{}{}, then the call is issued
LimiterAcquire(r) ==
    /\ pool.waiting[r] > 0
    /\ esiSemaphore < EsiSemaphoreCapacity
    /\ esiSemaphore' = esiSemaphore + 1
    /\ pool' = [pool EXCEPT !.waiting[r] = @ - 1, !.calling[r] = @ + 1]
    /\ UNCHANGED <<bucket, persisted, mjob, workers, reply, cycles>>

\* checkIfMarketType: the call returns, <-esiSemaphore; the goroutine has its answer
LimiterSucceed(r) ==
    /\ pool.calling[r] > 0
    /\ esiSemaphore' = esiSemaphore - 1
    /\ pool' = [pool EXCEPT !.calling[r] = @ - 1, !.finished = @ + 1]
    /\ UNCHANGED <<bucket, persisted, mjob, workers, reply, cycles>>

\* checkIfMarketType that keeps its slot when the call fails
LimiterFailKeepsSlot(r) ==
    /\ pool.calling[r] > 0
    /\ Retrying < MaxRetrying \/ r > 1
    /\ esiSemaphore' = esiSemaphore
    /\ pool' = IF r < Retries
               THEN [pool EXCEPT !.calling[r] = @ - 1, !.waiting[r + 1] = @ + 1]
               ELSE [pool EXCEPT !.calling[r] = @ - 1, !.failed = @ + 1]
    /\ UNCHANGED <<bucket, persisted, mjob, workers, reply, cycles>>

\* checkIfMarketType: the call fails, <-esiSemaphore; checkIfMarketTypeAsyncRetry
\* tries again while retries are left
LimiterFail(r) ==
    /\ pool.calling[r] > 0
    /\ Retrying < MaxRetrying \/ r > 1
    /\ esiSemaphore' = esiSemaphore - 1
    /\ pool' = IF r < Retries
               THEN [pool EXCEPT !.calling[r] = @ - 1, !.waiting[r + 1] = @ + 1]
               ELSE [pool EXCEPT !.calling[r] = @ - 1, !.failed = @ + 1]
    /\ UNCHANGED <<bucket, persisted, mjob, workers, reply, cycles>>

LimiterNext ==
    \/ LimiterLaunch /\ UNCHANGED <<locVars, envVars, fanVars>>
    \/ \E r \in 1..Retries : LimiterAcquire(r) /\ UNCHANGED <<locVars, envVars, fanVars>>
    \/ \E r \in 1..Retries : LimiterSucceed(r) /\ UNCHANGED <<locVars, envVars, fanVars>>
    \/ \E r \in 1..Retries : LimiterFail(r) /\ UNCHANGED <<locVars, envVars, fanVars>>

Limiter == Init /\ [][LimiterNext]_vars

\* The two limiters, each with more goroutines than it has slots: crestSemaphore of the
\* revision that asks CREST and esiSemaphore of the market types. The modules share
\* nothing, so a burst of the one is launched while the other has no goroutine left.
SlotsInit ==
    /\ Boot
    /\ api = "CREST"
    /\ healthy = FALSE
    /\ thirdParty = Feeds

\* goroutines of the large catalog that have not ended
PoolRunning ==
    \E r \in 1..Retries : pool.waiting[r] + pool.calling[r] > 0

SlotsLaunchLocations == ~PoolRunning /\ FanOutLaunch

SlotsLaunchTypes == fanStart = 0 /\ InFlightCalls = 0 /\ LimiterLaunch

\* what the goroutines do: they take a slot, and their calls return
SlotsSteps ==
    \/ FanOutCacheHit /\ UNCHANGED <<envVars, typeVars, pool>>
    \/ FanOutAcquire /\ UNCHANGED <<envVars, typeVars, pool>>
    \/ FanOutRelease /\ UNCHANGED <<envVars, typeVars, pool>>
    \/ \E r \in 1..Retries : LimiterAcquire(r) /\ UNCHANGED <<locVars, envVars, fanVars>>
    \/ \E r \in 1..Retries : LimiterSucceed(r) /\ UNCHANGED <<locVars, envVars, fanVars>>
    \/ \E r \in 1..Retries : LimiterFail(r) /\ UNCHANGED <<locVars, envVars, fanVars>>

SlotsNext ==
    \/ SlotsLaunchLocations /\ UNCHANGED <<envVars, typeVars, pool>>
    \/ SlotsLaunchTypes /\ UNCHANGED <<locVars, envVars, fanVars>>
    \/ SlotsSteps

\* every upstream call ends (the clients' timeouts) and the Go scheduler runs every
\* goroutine that can run
Slots == SlotsInit /\ [][SlotsNext]_vars /\ WF_vars(SlotsSteps)

\* The market types: the refresh cycles and the readers.
TypesNext ==
    \/ GetMarketTypes /\ UNCHANGED <<locVars, envVars, fanVars, pool>>
    \/ scheduleMarketTypeUpdate /\ UNCHANGED <<locVars, envVars, fanVars, pool>>
    \/ getTypeIDs /\ UNCHANGED <<locVars, envVars, fanVars, pool>>
    \/ \E i \in DOMAIN workers : TypeAcquire(i) /\ UNCHANGED <<locVars, envVars, fanVars, pool>>
    \/ \E i \in DOMAIN workers : TypeRelease(i) /\ UNCHANGED <<locVars, envVars, fanVars, pool>>
    \/ \E i \in DOMAIN workers : TypeReceive(i) /\ UNCHANGED <<locVars, envVars, fanVars, pool>>
    \/ updateMarketTypes /\ UNCHANGED <<locVars, envVars, fanVars, pool>>

Types == Init /\ [][TypesNext]_vars

----------------------------------------------------------------------------
\* Properties.

TaskIds == UNION {{<<o, i>> : i \in DOMAIN tasks[o]} : o \in DOMAIN tasks}

TaskAt(x) == tasks[x[1]][x[2]]

\* the goroutines whose call of getCachedLocation has just returned
Resolved == {TaskAt(x) : x \in {y \in TaskIds : TaskAt(y).pc = "send"}}

Expired(entry) == entry.ExpiresAt < now

IsRegion(id) == id \in DOMAIN Universe /\ Universe[id].category = "region"

\* the ids that are refreshed one by one: stations, solar systems, constellations
RefreshedOneByOne(id) == id \in DOMAIN Universe /\ ~IsRegion(id)

Complete(loc) ==
    loc.SolarSystem # Nil /\ loc.Constellation # Nil /\ loc.Region # Nil

\* C1: a resolution that found an expired entry of an id refreshed one by one and
\* whose upstream call failed returns that entry without an error; a resolution of
\* such an id ends in an error only if it found no entry and the upstream call failed.
C1_StaleFallback ==
    \A t \in Resolved :
        /\ (t.seenEntry # ZeroCachedLocation /\ Expired(t.seenEntry)
                /\ RefreshedOneByOne(t.id) /\ t.upfail)
            => (t.err = "" /\ t.loc = t.seenEntry)
        /\ (t.err # "" /\ RefreshedOneByOne(t.id) /\ t.upfail)
            => t.seenEntry = ZeroCachedLocation

\* C2: a resolution that found an unexpired entry returns exactly that entry, without
\* an upstream call and without a cache write.
C2_CacheHit ==
    \A t \in Resolved :
        (t.seenEntry # ZeroCachedLocation /\ ~Expired(t.seenEntry))
            => /\ t.err = ""
               /\ t.loc = t.seenEntry
               /\ t.calls = 0
               /\ t.writes = 0

\* a second request finds the unexpired entry that a first one wrote
C2_Witness ==
    \E t \in Resolved :
        /\ t.kind = "async"
        /\ t.seenEntry # ZeroCachedLocation /\ ~Expired(t.seenEntry)
        /\ RefreshedOneByOne(t.id)
        /\ ops = 2

\* C3: a resolution of a region id or of a structure id that found an entry returns
\* exactly that entry, without an upstream call and without a cache write, whatever
\* the entry's expiresAt.
C3_NeverIndividuallyStale ==
    \A t \in Resolved :
        (t.seenEntry # ZeroCachedLocation /\ (IsRegion(t.id) \/ t.id > CitadelBound))
            => /\ t.err = ""
               /\ t.loc = t.seenEntry
               /\ t.calls = 0
               /\ t.writes = 0

\* an expired structure entry is asked for and returned
C3_Witness ==
    \E t \in Resolved :
        /\ t.id > CitadelBound
        /\ t.seenEntry # ZeroCachedLocation /\ Expired(t.seenEntry)
        /\ t.loc = t.seenEntry

\* the keys of the response map for a set of ids
Keys(ids) == {ResponseKey(id) : id \in ids}

\* C4: when getLocations returns, the mapping holds exactly the ids whose goroutine
\* sent a location, each with that location, every launched goroutine has sent, and
\* the error is non-nil exactly when a goroutine sent an error.
C4_PartialSuccess ==
    \A b \in Callers :
        batch[b].st = "returned" =>
            LET r == batch[b].results
                ok == {i \in DOMAIN r : r[i].err = ""}
            IN  /\ DOMAIN r = DOMAIN tasks[b]
                /\ DOMAIN batch[b].response = Keys({r[i].id : i \in ok})
                /\ \A i \in ok :
                        batch[b].response[ResponseKey(r[i].id)] = r[i].location
                /\ batch[b].err <=> (ok # DOMAIN r)

\* a request returns one location and an error
C4_Witness ==
    \E b \in Batches :
        /\ batch[b].st = "returned"
        /\ batch[b].err
        /\ DOMAIN batch[b].response # {}

\* C5: getLocations launches one goroutine per distinct id of its list, waits for that
\* many messages, and its mapping has keys of distinct ids of the list only: all of
\* them when no goroutine failed.
C5_Deduplication ==
    \A b \in Callers :
        batch[b].st \in {"collecting", "returned"} =>
            LET distinct == Range(batch[b].input)
            IN  /\ Len(tasks[b]) = Cardinality(distinct)
                /\ {tasks[b][i].id : i \in DOMAIN tasks[b]} = distinct
                /\ batch[b].outstandingRequests + Cardinality(DOMAIN batch[b].results)
                        = Cardinality(distinct)
                /\ batch[b].st = "returned" => batch[b].outstandingRequests = 0
                /\ DOMAIN batch[b].response \subseteq Keys(distinct)
                /\ (batch[b].st = "returned" /\ ~batch[b].err)
                        => DOMAIN batch[b].response = Keys(distinct)

\* a list that names an id twice is resolved
C5_Witness ==
    \E b \in Batches :
        /\ batch[b].st = "returned"
        /\ ~batch[b].err
        /\ Len(batch[b].input) > Cardinality(Range(batch[b].input))

\* the status the endpoint answers with when every id resolved
FullSuccess == IF api = "ESI" THEN GetLocations(FALSE) ELSE GetLocationsEndpoint(FALSE)

\* C6: when getLocations returned a non-nil error, the endpoint's status differs from
\* the status of a full success.
C6_StatusDistinguishes ==
    \A b \in Batches :
        (batch[b].st = "returned" /\ batch[b].err) => batch[b].status # FullSuccess

\* C7: the Location of every successful resolution of a station id, and every cache
\* entry with a Station facet, has the SolarSystem, Constellation and Region facets.
C7_AncestorCompleteness ==
    /\ \A t \in Resolved :
            (t.kind = "async" /\ t.err = "" /\ t.id \in DOMAIN Universe
                /\ Universe[t.id].category = "station")
                => (t.loc.Location.Station # Nil /\ Complete(t.loc.Location))
    /\ \A k \in DOMAIN cache :
            cache[k].Location.Station # Nil => Complete(cache[k].Location)

\* a station is resolved while the cache holds a structure
C7_Witness ==
    /\ \E t \in Resolved :
            /\ t.kind = "async" /\ t.err = "" /\ t.writes = 1
            /\ t.id \in DOMAIN Universe /\ Universe[t.id].category = "station"
    /\ \E k \in DOMAIN cache : ghost[k] = "storeStructure"

\* README.md:6-7: conquerable stations are the stations above 61000000
Conquerable(id) == id > EsiConquerableAbove

\* the goroutines about to write an entry they fetched
Fetched == {TaskAt(x) : x \in {y \in TaskIds : TaskAt(y).pc = "put"}}

\* C8: the entry updateLocationInCache writes after a fetch expires an hour after the
\* fetch for a conquerable station and a day after it for every other id.
C8_TTL ==
    \A t \in Fetched :
        t.loc.ExpiresAt = t.at + (IF Conquerable(t.id) THEN HourTTL ELSE DayTTL)

\* the ids of the band that is fetched one by one
Fetchable(id) ==
    IF api = "ESI"
    THEN (EsiLow <= id /\ id < GapLow) \/ (GapHigh <= id /\ id <= EsiHigh)
    ELSE (CrestLow <= id /\ id < GapLow) \/ (GapHigh <= id /\ id <= CrestHigh)

\* the resolution found no entry, or one that is expired and refreshed one by one
NoFreshEntry(t) ==
    \/ t.seenEntry = ZeroCachedLocation
    \/ Expired(t.seenEntry) /\ ~IsRegion(t.id) /\ t.id <= CitadelBound

\* C9: a resolution of an id that is neither a citadel nor in the fetchable band, and
\* that found no fresh entry, ends in the invalid-range error without an upstream call
\* and without a cache write, on every attempt.
C9_InvalidRange ==
    \A t \in Resolved :
        (t.id <= CitadelBound /\ ~Fetchable(t.id) /\ NoFreshEntry(t))
            => /\ t.err = "range"
               /\ t.calls = 0
               /\ t.writes = 0

\* an id that was refused before is asked for again and refused again
C9_Witness ==
    \E t \in Resolved :
        /\ t.id <= CitadelBound /\ ~Fetchable(t.id)
        /\ t.err = "range"
        /\ Refusals(t.id) = 2

\* C10: a resolution of a structure id that found no entry ends in the citadel error,
\* which is not the invalid-range error, without an upstream call and without a cache
\* write; and every entry of a structure id was written by storeStructure.
C10_UnknownStructure ==
    /\ \A t \in Resolved :
            (t.id > CitadelBound /\ t.seenEntry = ZeroCachedLocation)
                => /\ t.err = "citadel"
                   /\ t.calls = 0
                   /\ t.writes = 0
    /\ \A k \in DOMAIN cache :
            cache[k].ID > CitadelBound => ghost[k] = "storeStructure"

\* an unknown structure is asked for
C10_Witness ==
    \E t \in Resolved :
        /\ t.id > CitadelBound
        /\ t.seenEntry = ZeroCachedLocation
        /\ t.err = "citadel"

\* a goroutine's upstream call fails in this step
RefetchFails(x) ==
    /\ TaskAt(x).pc # "send"
    /\ x[2] \in DOMAIN tasks'[x[1]]
    /\ tasks'[x[1]][x[2]].pc = "send"
    /\ tasks'[x[1]][x[2]].upfail

\* C11: a key of the location cache stays a key in every step; a step of the clock,
\* which is what expires entries, and a step in which a refetch fails leave every
\* stored entry as it is.
C11_NoEviction ==
    [][/\ \A k \in DOMAIN cache : k \in DOMAIN cache'
       /\ now' # now => cache' = cache
       /\ (\E x \in TaskIds : RefetchFails(x)) => cache' = cache]_vars

\* the refetch of an expired entry has failed, and the entry is still the stored one
C11_Witness ==
    \E t \in Resolved :
        /\ t.seenEntry # ZeroCachedLocation
        /\ Expired(t.seenEntry)
        /\ t.upfail
        /\ Stored(t.id) = t.seenEntry

\* C12: the upstream calls to the location API that are in flight, classification and
\* detail calls alike, never number more than the limiter's capacity.
C12_BoundedFanOut == InFlightCalls <= SemaphoreCapacity

\* part_005:213: published and with a market group
IsMarketType(typeID) ==
    TypeInfo[typeID].Published /\ TypeInfo[typeID].MarketGroupId # 0

\* the goroutines whose retry loop has ended
Reported == {i \in DOMAIN workers : workers[i].pc \in {"send", "done"}}

\* C13: checkIfMarketTypeAsyncRetry makes at most 3 calls for its type and none after a
\* call that succeeded; it reports the type's class when a call succeeded and a failure
\* exactly when 3 calls failed; it sends one message, and the list of the cycle holds
\* exactly the market types among the types reported as classified.
C13_RetryBound ==
    /\ \A i \in DOMAIN workers :
        LET w == workers[i]
        IN  /\ w.calls <= Retries
            /\ w.pc = "acquire" => (w.calls = w.fails /\ w.fails < Retries)
            /\ w.pc = "call" => w.calls = w.fails + 1
            /\ i \in Reported =>
                    /\ w.err <=> (w.fails = Retries)
                    /\ ~w.err <=> (w.calls - w.fails = 1)
                    /\ ~w.err => (w.isMarketType <=> IsMarketType(w.typeID))
            /\ w.sent = IF w.pc = "done" THEN 1 ELSE 0
    /\ mjob.pc = "collect" =>
            Range(mjob.marketTypeIDs) =
                {workers[i].typeID : i \in {j \in DOMAIN workers :
                    /\ workers[j].pc = "done"
                    /\ ~workers[j].err
                    /\ IsMarketType(workers[j].typeID)}}

\* a market type is classified by the third call, after two that failed, while another
\* type failed three times
C13_Witness ==
    /\ mjob.pc = "collect"
    /\ mjob.typesLeft = 0
    /\ \E i \in DOMAIN workers :
            /\ workers[i].fails = 2 /\ workers[i].calls = 3
            /\ workers[i].typeID \in Range(mjob.marketTypeIDs)
    /\ \E i \in DOMAIN workers : workers[i].fails = 3 /\ workers[i].sent = 1

\* C14: GetMarketTypes answers NotFound when no cycle has persisted a list so far, and
\* otherwise answers with exactly the list persisted last.
C14_ReadContract ==
    reply.code # "" =>
        IF reply.seen.present
        THEN reply.code = "OK" /\ reply.typeIds = reply.seen.ids
        ELSE reply.code = "NotFound"

\* the second cycle has persisted a list other than the first, and it is the one read
C14_Witness ==
    /\ cycles = 2
    /\ mjob.pc = "done"
    /\ reply.code = "OK"
    /\ reply.typeIds = <<587>>
    /\ reply.seen = persisted

\* C15: once scheduleStaticDataUpdate runs, before any tick, a structure refresh and a
\* region refresh have been started (and each tick starts both again).
C15_StartupRun ==
    sched = "ticking" => (sjob.pc # "idle" /\ rjob.pc # "idle")

\* C16: a cycle of updateStructures whose feed was not obtained (transport error, status
\* other than 200, unreadable or unparsable body) ends in that step, with the cache as it
\* was, no goroutine launched and no call of getLocations.
C16_FailureLeavesCache ==
    [][(sjob.pc = "get" /\ sjob'.answer = "failed")
        => /\ cache' = cache
           /\ tasks' = tasks
           /\ batch' = batch
           /\ sjob'.pc = "done"]_vars

\* a cycle has failed to obtain the feed while the cache holds entries
C16_Witness ==
    /\ sjob.answer = "failed"
    /\ sjob.pc = "done"
    /\ cache # <<>>

\* the feed the third party API answers with in the background refresh alone
TheFeed == CHOOSE f \in thirdParty : TRUE

RegionsCached == \A r \in Range(RegionList) : FormatInt(r) \in DOMAIN cache

\* the structure under key has a cache entry
StructureCached(key) ==
    /\ ParseInt(key).ok
    /\ FormatInt(ParseInt(key).value) \in DOMAIN cache

\* every system the feed names is one the location API knows and the resolver accepts
FeedResolves ==
    \A key \in DOMAIN TheFeed :
        /\ TheFeed[key].SystemID \in DOMAIN Universe
        /\ RangeError(TheFeed[key].SystemID) = ""

C18_Limiter == TypeCallsInFlight <= EsiSemaphoreCapacity

\* the catalog has more than 200 type ids, 200 calls are in flight, one of them a
\* third attempt, and a goroutine waits for a slot
C18_Witness ==
    /\ TypeCallsInFlight = EsiSemaphoreCapacity
    /\ pool.calling[3] > 0
    /\ pool.waiting[1] > 0

\* a Location with a facet set
HasFacet(loc) ==
    \/ loc.Region # Nil
    \/ loc.Constellation # Nil
    \/ loc.SolarSystem # Nil
    \/ loc.Station # Nil

\* C19: in the revision that asks ESI, no entry of the location cache has a Location
\* without a facet, whichever path wrote it: the resolution of a request, the refresh of
\* the regions or the refresh of the structures.
C19_NoFacetlessEntry ==
    api = "ESI" => \A k \in DOMAIN cache : HasFacet(cache[k].Location)

\* each of the three paths has written an entry
C19_Witness ==
    /\ api = "ESI"
    /\ \E k \in DOMAIN ghost : ghost[k] = "updateLocationInCache"
    /\ \E k \in DOMAIN ghost : ghost[k] = "updateRegions"
    /\ \E k \in DOMAIN ghost : ghost[k] = "storeStructure"

\* the goroutines of call b and the messages received from them agree: one message per
\* goroutine that has ended, none of a goroutine that has not
OneMessageEach(b) ==
    LET bt == batch[b]
        ts == tasks[b]
    IN  bt.st \in {"collecting", "returned"} =>
            /\ Len(ts) = Cardinality(Range(bt.input))
            /\ DOMAIN bt.results = {i \in DOMAIN ts : ts[i].pc = "done"}
            /\ bt.outstandingRequests = Len(ts) - Cardinality(DOMAIN bt.results)
            /\ bt.failed <=> \E i \in DOMAIN bt.results : bt.results[i].err # ""
            /\ \A i \in DOMAIN bt.results :
                    bt.results[i].err = "" <=>
                        ResponseKey(bt.results[i].id) \in DOMAIN bt.response
            /\ bt.st = "returned" =>
                    /\ \A i \in DOMAIN ts : ts[i].pc = "done"
                    /\ bt.err <=> bt.failed
                    /\ bt.input = <<>> => (bt.response = <<>> /\ ~bt.err /\ ts = <<>>)

\* no step takes a goroutine that has not ended away, and a goroutine that holds a
\* fetched entry leaves that place only by its own write
NotCancelled ==
    \A o \in DOMAIN tasks : \A i \in DOMAIN tasks[o] :
        LET t == tasks[o][i]
        IN  t.pc # "done" =>
                /\ i \in DOMAIN tasks'[o]
                /\ tasks'[o][i].id = t.id
                /\ (t.pc = "put" /\ t.kind = "async") =>
                        \/ tasks'[o][i] = t
                        \/ /\ tasks'[o][i].pc = "send"
                           /\ \/ tasks'[o][i].err = "put"
                              \/ /\ tasks'[o][i].writes = t.writes + 1
                                 /\ FormatInt(t.id) \in DOMAIN cache'
                                 /\ cache'[FormatInt(t.id)] = t.loc

\* C20: every goroutine of getLocations sends one message and getLocations receives one
\* message per goroutine; a call with an empty list returns an empty mapping and no
\* error without a goroutine; no goroutine is cancelled, each one that fetched performs
\* its write whatever its siblings did; and every call returns, with no goroutine left.
C20_FanOutTerminates ==
    /\ [](\A b \in Batches : OneMessageEach(b))
    /\ [][NotCancelled]_vars
    /\ \A b \in Batches : (batch[b].st = "collecting") ~> (batch[b].st = "returned")

\* a call of two goroutines has returned: one sent a failure, its sibling fetched, wrote
\* its entry and sent it
C20_Witness ==
    \E b \in Batches :
        /\ batch[b].st = "returned"
        /\ \E i, j \in DOMAIN batch[b].results :
            /\ i < j
            /\ batch[b].results[i].err # ""
            /\ batch[b].results[j].err = ""
            /\ FormatInt(batch[b].results[j].id) \in DOMAIN ghost
            /\ ghost[FormatInt(batch[b].results[j].id)] = "updateLocationInCache"

\* the id and the ids of its ancestors in the universe
RECURSIVE Chain(_)
Chain(id) ==
    IF id = 0 \/ id \notin DOMAIN Universe THEN {}
    ELSE {id} \cup Chain(Universe[id].parent)

\* C21: in the revision that asks ESI, an entry is written for every level a resolution
\* fetched: the bucket holds, with every entry written by a resolution, an entry for
\* each ancestor of its id, as no entry is ever removed.
C21_WriteEveryLevel ==
    api = "ESI" =>
        \A k \in DOMAIN cache :
            ghost[k] = "updateLocationInCache" =>
                \A a \in Chain(cache[k].ID) : FormatInt(a) \in DOMAIN cache

\* the id and its ancestors, from the id upwards
RECURSIVE ChainSeq(_)
ChainSeq(id) ==
    IF id = 0 \/ id \notin DOMAIN Universe THEN <<>>
    ELSE <<id>> \o ChainSeq(Universe[id].parent)

\* the facets fetched so far are those of the id and of its first ancestors, in order
FetchedInOrder(t) ==
    /\ Len(t.pending) <= Len(ChainSeq(t.id))
    /\ \A k \in DOMAIN t.pending :
        LET a == ChainSeq(t.id)[k]
        IN  t.pending[k] = [level |-> Universe[a].category,
                            facet |-> Facet(Universe[a].category, a)]

\* the facet of a Location at a level
FacetAt(loc, level) ==
    CASE level = "station" -> loc.Station
      [] level = "solar_system" -> loc.SolarSystem
      [] level = "constellation" -> loc.Constellation
      [] OTHER -> loc.Region

\* the places of one resolution in the order of its calls
SequentialPlaces(t) ==
    /\ t.pc = "names" => (t.pending = <<>> /\ t.calls = 1 /\ t.writes = 0)
    /\ t.pc = "detail" =>
            /\ FetchedInOrder(t)
            /\ Len(t.pending) < Len(ChainSeq(t.id))
            /\ t.cur = ChainSeq(t.id)[Len(t.pending) + 1]
            /\ t.level = Universe[t.cur].category
            /\ t.calls = Len(t.pending) + 2
            /\ t.writes = 0
    /\ t.pc = "put" =>
            /\ FetchedInOrder(t)
            /\ t.calls = Len(t.pending) + 1
            /\ t.writes = 0
            /\ t.loc.ID = t.id
            /\ \A k \in DOMAIN t.pending :
                    FacetAt(t.loc.Location, t.pending[k].level) = t.pending[k].facet
    /\ (t.pc = "send" /\ t.writes > 0) => (t.writes = 1 /\ t.err = "" /\ ~t.upfail)

\* the step that ends the fetch: every level up to a cached ancestor, or up to the
\* region, was fetched, and the facets above the fetched levels are those of the entry
\* the resolution of the parent returned
ParentBeforeSplice ==
    \A x \in TaskIds :
        LET t == TaskAt(x)
            u == tasks'[x[1]][x[2]]
            n == Len(u.pending)
            chain == ChainSeq(t.id)
        IN  (t.kind = "async" /\ t.pc \in {"names", "detail"}
                /\ x[2] \in DOMAIN tasks'[x[1]] /\ u.pc = "put") =>
                LET base == IF n = Len(chain) THEN EmptyLocation
                            ELSE fetchLocationFromCache(chain[n + 1]).location.Location
                IN  /\ n < Len(chain) => ~fetchLocationFromCache(chain[n + 1]).needsUpdate
                    /\ \A level \in Range(Levels) :
                        FacetAt(u.loc.Location, level) =
                            IF \E k \in 1..n : u.pending[k].level = level
                            THEN Facet(level, CHOOSE a \in Range(chain) :
                                                Universe[a].category = level)
                            ELSE FacetAt(base, level)

\* C22: in the revision that asks ESI, one resolution classifies the id, then fetches
\* the level, then resolves the parent, level by level; it holds an entry to write only
\* when every level up to a cached ancestor or up to the region was fetched, the facets
\* above the fetched levels being those of the parent's resolution; it writes once, after
\* all of that, and not after a failure.
C22_SequentialAncestors ==
    /\ [](api = "ESI" =>
            \A x \in TaskIds : TaskAt(x).kind = "async" => SequentialPlaces(TaskAt(x)))
    /\ [][api = "ESI" => ParentBeforeSplice]_vars

\* a station was fetched, its solar system came from the cache, and the entry to write
\* has the facets of both
C22_Witness ==
    /\ api = "ESI"
    /\ \E t \in Fetched :
        /\ Len(t.pending) = 1
        /\ t.pending[1].level = "station"
        /\ Complete(t.loc.Location)
        /\ t.loc.Location.Station # Nil

\* the errors of the classification and of the detail calls
FetchErrors == {"names", "status", "empty", "detail", "err", "json"}

\* C23: a call of getCachedLocation that ends in an error of the classification or of a
\* detail call has written nothing, and the step in which it fails leaves the bucket as
\* it is.
C23_FailureWritesNothing ==
    /\ [](\A t \in Resolved : t.err \in FetchErrors => (t.writes = 0 /\ t.upfail))
    /\ [][\A x \in TaskIds :
            (/\ TaskAt(x).pc # "send"
             /\ x[2] \in DOMAIN tasks'[x[1]]
             /\ tasks'[x[1]][x[2]].pc = "send"
             /\ tasks'[x[1]][x[2]].err \in FetchErrors) => cache' = cache]_vars

\* the detail call of an ancestor failed after the level itself was fetched, while the
\* bucket holds entries
C23_Witness ==
    /\ cache # <<>>
    /\ \E t \in Resolved :
        /\ t.err = "detail"
        /\ Len(t.pending) >= 1
        /\ Stored(t.id) = t.seenEntry

\* ids of every band: region, constellation, solar system, the reserved gap, stations,
\* above the stations, around the bound of the structures
BandIds == {101, 201, 301, 450, 601, 611, 650, CitadelBound - 1, CitadelBound,
            CitadelBound + 1}

\* an entry of the bucket for id that expires at the given time
EntryOf(id, expiresAt) == [ID |-> id, ExpiresAt |-> expiresAt, Location |-> EmptyLocation]

StructureLocation(sid, structure) ==
    [CrestLocation(structure.SystemID) EXCEPT
        !.Station = [Id |-> sid, Name |-> structure.Name, TypeId |-> structure.TypeID,
                     TypeName |-> structure.TypeName, LastSeen |-> structure.LastSeen,
                     Public |-> structure.Public, FirstSeen |-> structure.FirstSeen,
                     Coordinates |-> structure.Coordinates]]

\* the structure cycle is over: the systems resolved and every storeStructure has ended
StructuresStored ==
    /\ sjob.pc = "done"
    /\ sjob.answer = ""
    /\ batch[0].st = "returned"
    /\ ~batch[0].err
    /\ tasks[StoreOwner] # <<>>
    /\ \A i \in DOMAIN tasks[StoreOwner] : tasks[StoreOwner][i].pc = "done"

\* the bucket holds the entry of the structure under key
StructureEntryWritten(key) ==
    /\ ParseInt(key).ok
    /\ FormatInt(ParseInt(key).value) \in DOMAIN cache
    /\ cache[FormatInt(ParseInt(key).value)].ID = ParseInt(key).value
    /\ cache[FormatInt(ParseInt(key).value)].Location =
            StructureLocation(ParseInt(key).value, TheFeed[key])

\* C25 as stated: after a cycle whose feed was parsed and whose systems resolved, the
\* bucket holds the entry of every structure of the feed.
C25_OnePerStructure ==
    StructuresStored => \A key \in DOMAIN TheFeed : StructureEntryWritten(key)

\* updateStructures launches one storeStructure per key of the feed when every system
\* resolved, and none otherwise
OneStorePerKey ==
    (sjob.pc = "resolve" /\ sjob'.pc = "done") =>
        IF batch[0].failed THEN tasks' = tasks
        ELSE LET stores == tasks'[StoreOwner]
             IN  /\ Len(stores) = Cardinality(DOMAIN sjob.feed)
                 /\ {stores[i].key : i \in DOMAIN stores} = DOMAIN sjob.feed
                 /\ \A i \in DOMAIN stores :
                        /\ stores[i].structure = sjob.feed[stores[i].key]
                        /\ stores[i].id = stores[i].structure.SystemID
                        /\ IF ParseInt(stores[i].key).ok
                           THEN /\ stores[i].sid = ParseInt(stores[i].key).value
                                /\ stores[i].pc = "start"
                           ELSE stores[i].pc = "done"

\* a storeStructure changes the bucket only by the write of the entry of its structure
StoreWritesItsEntry ==
    /\ \A i \in DOMAIN tasks[StoreOwner] :
        LET t == tasks[StoreOwner][i]
        IN  (t.pc = "sput" /\ i \in DOMAIN tasks'[StoreOwner]
                /\ tasks'[StoreOwner][i] # t) =>
                \/ cache' = cache
                \/ cache' = (FormatInt(t.sid) :>
                                [ID |-> t.sid, ExpiresAt |-> t.expireAt,
                                 Location |-> StructureLocation(t.sid, t.structure)])
                            @@ cache
    /\ \A k \in DOMAIN cache' :
        (k \in DOMAIN ghost' /\ ghost'[k] = "storeStructure"
            /\ (k \notin DOMAIN cache \/ cache'[k] # cache[k])) =>
            \E i \in DOMAIN tasks[StoreOwner] :
                tasks[StoreOwner][i].pc = "sput" /\ FormatInt(tasks[StoreOwner][i].sid) = k

\* C25, amended: after the feed was parsed and every system resolved, one storeStructure
\* runs per structure of the feed; each one whose key is a decimal id writes, unless its
\* write fails, the entry keyed by that id whose Station is the structure and whose other
\* facets are those of its solar system; no other entry is written for a structure.
C25_StructureEntries ==
    /\ [][OneStorePerKey]_vars
    /\ [][StoreWritesItsEntry]_vars
    /\ [](\A k \in DOMAIN cache :
            ghost[k] = "storeStructure" =>
                \E key \in DOMAIN TheFeed :
                    ParseInt(key).ok /\ FormatInt(ParseInt(key).value) = k
                        /\ StructureEntryWritten(key))

\* a cycle is over and the bucket holds the entries of the two structures of the feed
C25_Witness ==
    /\ StructuresStored
    /\ Cardinality(DOMAIN TheFeed) = 2
    /\ \A key \in DOMAIN TheFeed :
        /\ StructureEntryWritten(key)
        /\ ghost[FormatInt(ParseInt(key).value)] = "storeStructure"

\* the entry updateRegions writes for a region: a day to live, the Region facet alone
RegionEntry(id) ==
    [ID |-> id, ExpiresAt |-> now + DayTTL,
     Location |-> [EmptyLocation EXCEPT !.Region = [Id |-> id, Name |-> Universe[id].name]]]

\* the ids of the region list before those that are left
RegionsBefore(rest) == {RegionList[k] : k \in 1..(Len(RegionList) - Len(rest))}

\* the places of the region cycle: what is left is a tail of the list, the regions before
\* it have their entries of this cycle, the entry to write is that of the next region
RegionPlaces ==
    /\ rjob.pc \in {"detail", "put"} =>
            /\ rjob.rest # <<>>
            /\ rjob.rest = SubSeq(RegionList, Len(RegionList) - Len(rjob.rest) + 1,
                                  Len(RegionList))
            /\ \A id \in RegionsBefore(rjob.rest) :
                    /\ FormatInt(id) \in DOMAIN cache
                    /\ cache[FormatInt(id)] = RegionEntry(id)
    /\ rjob.pc = "put" => rjob.entry = RegionEntry(Head(rjob.rest))

\* the steps of the region cycle: it goes on to the next region only by the write of the
\* entry of this one, it ends with every region written or at a failure without a write
RegionSteps ==
    /\ (rjob.pc = "put" /\ rjob'.pc = "detail") =>
            /\ cache' = (FormatInt(rjob.entry.ID) :> rjob.entry) @@ cache
            /\ rjob'.rest = Tail(rjob.rest)
    /\ (rjob.pc = "put" /\ rjob'.pc = "done") =>
            \/ cache' = cache
            \/ /\ Len(rjob.rest) = 1
               /\ cache' = (FormatInt(rjob.entry.ID) :> rjob.entry) @@ cache
               /\ \A id \in Range(RegionList) :
                    FormatInt(id) \in DOMAIN cache' /\ cache'[FormatInt(id)] = RegionEntry(id)
    /\ (rjob.pc \in {"list", "detail"} /\ rjob' # rjob) => cache' = cache
    /\ (rjob.pc = "done" /\ rjob'.pc # "done") => rjob'.pc = "list"

\* C26: a region cycle writes the regions of the list in order, each with a day to live
\* and the Region facet alone; it ends after the last write or stops at the first failed
\* detail call or write, keeping the entries written so far and writing nothing more.
C26_RegionRefresh ==
    /\ []RegionPlaces
    /\ [][RegionSteps]_vars

\* a full cycle wrote both regions; after a step of the clock the next cycle wrote the
\* first region and stopped: the second region keeps the entry of the cycle before
C26_Witness ==
    /\ rjob.pc = "done"
    /\ FormatInt(RegionList[1]) \in DOMAIN cache
    /\ FormatInt(RegionList[2]) \in DOMAIN cache
    /\ cache[FormatInt(RegionList[1])] = RegionEntry(RegionList[1])
    /\ cache[FormatInt(RegionList[2])].ExpiresAt < now + DayTTL
    /\ ghost[FormatInt(RegionList[1])] = "updateRegions"
    /\ ghost[FormatInt(RegionList[2])] = "updateRegions"

\* the ids of the pages 1 .. n of a catalog, appended
RECURSIVE PagesTo(_, _)
PagesTo(catalog, n) ==
    IF n = 0 THEN <<>> ELSE PagesTo(catalog, n - 1) \o PageOf(catalog, n)

\* the first page of a catalog that is empty
FirstEmptyPage(catalog) ==
    CHOOSE p \in 1..(Len(catalog) + 1) :
        /\ PageOf(catalog, p) = <<>>
        /\ \A q \in 1..(p - 1) : PageOf(catalog, q) # <<>>

\* getTypeIDs has asked for the pages 1 .. page, in order, none after an empty one
PagesInOrder ==
    /\ mjob.pc = "types" =>
            /\ \A p \in 1..mjob.page : PageOf(mjob.catalog, p) # <<>>
            /\ mjob.typeIDs = PagesTo(mjob.catalog, mjob.page)
    /\ mjob.pc = "collect" =>
            /\ mjob.page = FirstEmptyPage(mjob.catalog)
            /\ mjob.typeIDs = PagesTo(mjob.catalog, mjob.page - 1)
            /\ Len(workers) = Len(mjob.typeIDs)
            /\ \A k \in DOMAIN workers : workers[k].typeID = mjob.typeIDs[k]

\* the list a cycle persists: the ids of the pages before the first empty one that were
\* classified, within 3 attempts, as published with a market group
PersistsMarketTypes ==
    (mjob.pc = "collect" /\ mjob'.pc = "done") =>
        \/ persisted' = persisted /\ bucket' = bucket
        \/ /\ persisted'.present
           /\ Range(persisted'.ids) =
                {id \in Range(PagesTo(mjob.catalog, FirstEmptyPage(mjob.catalog) - 1)) :
                    /\ IsMarketType(id)
                    /\ \E i \in DOMAIN workers :
                        workers[i].typeID = id /\ workers[i].fails < Retries}
           /\ bucket' = [present |-> TRUE, blob |-> Marshal(persisted'.ids)]

\* C27: getTypeIDs asks for the pages 1, 2, ... in order and for none after the first
\* empty one, and the list a cycle persists holds exactly the ids of those pages that
\* were classified within 3 attempts as published with a market group.
C27_ListContent ==
    /\ []PagesInOrder
    /\ [][PersistsMarketTypes]_vars

\* the catalog has a page after an empty page: the cycle stopped at the empty page and
\* is about to persist the market type of the first page
C27_Witness ==
    /\ mjob.pc = "collect"
    /\ mjob.typesLeft = 0
    /\ Len(mjob.catalog) = 3
    /\ mjob.page = 2
    /\ mjob.marketTypeIDs = <<34>>

\* C28, for the refresh of the market types: a cycle whose write transaction failed ends
\* with the log line of a failure, not with the one of a success.
C28_StorageErrorsSurface ==
    (mjob.pc = "done" /\ mjob.dbfail) => mjob.answer = "failed"

\* the stored list after the write of the list of the cycle
Replaced ==
    /\ persisted' = [present |-> TRUE, ids |-> mjob.marketTypeIDs]
    /\ bucket' = [present |-> TRUE, blob |-> Marshal(mjob.marketTypeIDs)]

WholeListOnly ==
    (bucket' # bucket \/ persisted' # persisted) =>
        /\ mjob.pc = "collect"
        /\ mjob.typesLeft = 0
        /\ mjob'.pc = "done"
        /\ Replaced

\* the end of a cycle: after a failed page nothing is written; after the last page the
\* list is replaced, or the write fails and the list stays
CycleEnds ==
    /\ (mjob.pc = "types" /\ mjob'.pc = "done") =>
            (bucket' = bucket /\ persisted' = persisted /\ mjob'.answer = "failed")
    /\ (mjob.pc = "collect" /\ mjob'.pc = "done") =>
            \/ Replaced /\ ~mjob'.dbfail
            \/ bucket' = bucket /\ persisted' = persisted /\ mjob'.dbfail

Writers == {"updateLocationInCache", "storeStructure", "updateRegions"}

\* C30: every entry of the location cache is stored under the decimal form of its own
\* id, and every key of the mapping of a getLocations is one of the requested ids.
C30_SingleNamespace ==
    /\ \A k \in DOMAIN cache : k = FormatInt(cache[k].ID)
    /\ \A b \in Callers :
            DOMAIN batch[b].response \subseteq Keys(Range(batch[b].input))

\* the bucket holds an entry of each writer, and a request that asked for two ids
\* returned a mapping with both
C30_Witness ==
    /\ \A w \in Writers : \E k \in DOMAIN ghost : ghost[k] = w
    /\ \E b \in Callers :
            /\ batch[b].st = "returned"
            /\ Cardinality(DOMAIN batch[b].response) = 2

\* the resolution of t got the detail of its own id from upstream
DetailFetched(t) ==
    \E k \in DOMAIN t.pending : t.pending[k].facet = Facet(Universe[t.id].category, t.id)

\* the step is the write of updateLocationInCache for task x, with a new expiresAt
WritesEntry(x) ==
    /\ x \in TaskIds
    /\ TaskAt(x).kind = "async"
    /\ TaskAt(x).pc = "put"
    /\ cache' = (FormatInt(TaskAt(x).id) :> TaskAt(x).loc) @@ cache
    /\ TaskAt(x).loc.ExpiresAt # Stored(TaskAt(x).id).ExpiresAt
    /\ tasks'[x[1]][x[2]].pc = "send"
    /\ tasks'[x[1]][x[2]].writes = TaskAt(x).writes + 1

\* C31, for the ESI revision: every write of updateLocationInCache follows, within the
\* same resolution, a successful detail fetch of the id it writes.
C31_ExpiryNeedsFetch ==
    [][\A x \in TaskIds :
        (api = "ESI" /\ WritesEntry(x)) => DetailFetched(TaskAt(x))]_vars

\* the slots that are held are those of the calls in flight
SlotsHeld ==
    /\ sem = fanCalling[1]
    /\ esiSemaphore = TypeCallsInFlight

\* C32: the slots held of crestSemaphore and of esiSemaphore are, in every state, as many
\* as the calls in flight, whatever calls failed, and every goroutine that waits for a
\* slot gets one: the goroutines that are launched all end.
C32_SlotsReleased ==
    /\ []SlotsHeld
    /\ (fanStart > 0 ~> fanStart = 0)
    /\ \A r \in 1..Retries : (pool.waiting[r] > 0 ~> pool.waiting[r] = 0)
    /\ (PoolRunning ~> (~PoolRunning /\ esiSemaphore = 0))

\* the goroutines of a catalog larger than the limiter have all ended, one of them after
\* its calls failed for good, with no slot of esiSemaphore held, and crestSemaphore is
\* full with a goroutine waiting
C32_Witness ==
    /\ pool.launched
    /\ ~PoolRunning
    /\ pool.finished + pool.failed = MaxTypes
    /\ pool.failed > 0
    /\ esiSemaphore = 0
    /\ sem = SemaphoreCapacity
    /\ fanStart > 0

\* getLocations(systemIDs) of the cycle has met a failure
GateClosed == batch[0].st \in {"collecting", "returned"} /\ batch[0].failed

\* the keys of the entries that storeStructure wrote
StructureKeys == {k \in DOMAIN ghost : ghost[k] = "storeStructure"}

\* the step leaves the structure entries as they are
StructuresKept ==
    /\ {k \in DOMAIN ghost' : ghost'[k] = "storeStructure"} = StructureKeys
    /\ \A k \in StructureKeys : cache'[k] = cache[k]

\* the systems whose resolution succeeded have their entry in the cache
SystemsWritten ==
    \A i \in DOMAIN batch[0].results :
        batch[0].results[i].err = "" =>
            Stored(batch[0].results[i].id).Location = batch[0].results[i].location

\* C33: once the resolution of the system ids of the feed has met a failure, the cycle
\* launches no storeStructure and writes no structure entry, the entries of structures
\* written by earlier cycles stay as they are, and the systems that did resolve have
\* their entry.
C33_AllOrNothing ==
    /\ [](GateClosed =>
            \A i \in DOMAIN tasks[StoreOwner] : tasks[StoreOwner][i].pc = "done")
    /\ [][GateClosed => StructuresKept]_vars
    /\ []((GateClosed /\ batch[0].st = "returned") => SystemsWritten)

\* a cycle stored a structure; in the next one the system of one structure resolved,
\* the system of another did not, and getLocations has returned
C33_Witness ==
    /\ GateClosed
    /\ batch[0].st = "returned"
    /\ StructureKeys # {}
    /\ \E i \in DOMAIN batch[0].results : batch[0].results[i].err = ""
    /\ \E i \in DOMAIN batch[0].results : batch[0].results[i].err # ""
    /\ sjob.pc = "done"

\* the calls of putIntoCache that are about to run: the entry and its writer
PendingWrites ==
    {[entry |-> TaskAt(x).loc, by |-> "updateLocationInCache"] :
        x \in {y \in TaskIds : TaskAt(y).pc = "put"}}
    \cup {[entry |-> TaskAt(x).loc, by |-> "storeStructure"] :
        x \in {y \in TaskIds : TaskAt(y).pc = "sput"}}
    \cup (IF rjob.pc = "put" THEN {[entry |-> rjob.entry, by |-> "updateRegions"]}
          ELSE {})

\* C34: every step that changes the location cache puts the whole entry of one writer
\* under its key and leaves every other key as it is, also when another writer has
\* written that key in the meantime: the last writer wins.
C34_WholeValues ==
    [][(cache' # cache \/ ghost' # ghost) =>
        \E w \in PendingWrites :
            /\ cache' = (FormatInt(w.entry.ID) :> w.entry) @@ cache
            /\ ghost' = (FormatInt(w.entry.ID) :> w.by) @@ ghost]_vars

\* a request missed the cache for an id, another writer wrote the entry of the id while
\* the request called upstream, and the request has written its own entry over it
C34_Witness ==
    \E x \in TaskIds :
        /\ TaskAt(x).pc = "send"
        /\ TaskAt(x).writes = 1
        /\ TaskAt(x).seenEntry = ZeroCachedLocation
        /\ TaskAt(x).pending = <<>>
        /\ api = "ESI"
        /\ Stored(TaskAt(x).id) = TaskAt(x).loc
        /\ TaskAt(x).loc.ExpiresAt = now + TTL(TaskAt(x).id)
        /\ now > StartTime

\* int32(id) equals id
SameAsInt32(id) == Int32(id) % 100000 = 0 /\ Int32(id) \div 100000 = id

\* C35, for the ESI revision: the id of every call to PostUniverseNames and to the detail
\* endpoints of stations, solar systems, constellations and regions is unchanged by
\* the conversion to int32.
C35_NoTruncation ==
    api = "ESI" =>
        \A x \in TaskIds :
            /\ TaskAt(x).pc = "names" => SameAsInt32(TaskAt(x).id)
            /\ TaskAt(x).pc = "detail" => SameAsInt32(TaskAt(x).cur)

\* an id that does not fit 32 bits was refused, and a later request is at the detail
\* call of the parent of its id
C35_Witness ==
    /\ api = "ESI"
    /\ \E id \in DOMAIN refused : refused[id] > 0 /\ ~SameAsInt32(id)
    /\ \E x \in TaskIds :
            /\ TaskAt(x).pc = "detail"
            /\ TaskAt(x).cur # TaskAt(x).id

====
